---- MODULE Spec2Model ----
(***************************************************************************)
(* A model of the CTX-Audit indexing core: the AST engine (ASTEngine in    *)
(* src-tauri/src/ast/engine.rs), its cache store (CacheManager in          *)
(* core/src/ast/cache.rs) and its query engine (QueryEngine in             *)
(* core/src/ast/query.rs).                                                 *)
(*                                                                         *)
(* Three specifications share the module:                                  *)
(*   Spec       the engine: attach, update, scan (with its rayon workers), *)
(*              persist and the queries, over a small file system;         *)
(*   SpecCache  save_cache followed by load_cache on a bounded CacheData;  *)
(*   SpecCG     get_call_graph, one loop iteration per step.               *)
(***************************************************************************)
EXTENDS Integers, Sequences, FiniteSets, TLC

VARIABLES
    files,          \* the file system: path -> [exists, mtime, content]
    disk,           \* the cache file ast_index.bin: [exists, blob]
    query_engine,   \* ASTEngine.query_engine: [loaded, index, class_map, build_time]
    cm_lock,        \* ASTEngine.cache_manager mutex: [holder, poisoned]
    parser_poisoned,\* ASTEngine.parser mutex was held by a panicking thread
    pc,             \* thread -> position in the operation it runs
    loc,            \* thread -> locals of its update_file call
    scan,           \* the scan in flight: [pending, ok, panicked, pre]
    last,           \* the caller's last completed operation
    touched,        \* a file changed since the caller's last operation completed
    events,         \* the number of operations and file changes so far
    seen,           \* what the last query during the scan in flight observed
    rt,             \* SpecCache: [pc, cache, file, loaded]
    cg,             \* SpecCG: the locals of get_call_graph
    ch,             \* SpecCH: the locals of get_class_hierarchy
    rc,             \* SpecRC: the locals of RuleScanner::new
    ld,             \* SpecLD: the locals of load_rules_from_dir
    rp,             \* SpecRP: the locals of generate_report
    sf,             \* SpecSF: the locals of RuleScanner::scan_file
    vs,             \* SpecVS: the syntax-tree walk of an extractor
    mcp,            \* SpecMCP: McpState, the sidecar and the call_tool invocations
    lk              \* SpecLK: the engine's three mutexes and the threads using them

vars == <<files, disk, query_engine, cm_lock, parser_poisoned, pc, loc,
          scan, last, touched, events, seen, rt, cg, ch,
          rc, ld, rp, sf, vs, mcp, lk>>

\* the variables of the specifications of single functions
pureVars == <<rt, cg, ch, rc, ld, rp, sf, vs, mcp, lk>>

----------------------------------------------------------------------------
(* Bounds of the model *)

\* mtimes are whole seconds 1..MaxMtime
MaxMtime == 2
\* the rayon pool has NWorkers threads
NWorkers == 2
\* a behaviour holds at most MaxEvents engine operations and file changes
MaxEvents == 4
\* SpecCache: a FileIndex holds at most MaxSymbols symbols
MaxSymbols == 1
\* SpecCG: the index holds at most MaxCalls call sites, max_depth <= MaxDepth
MaxCalls == 3
MaxDepth == 2
\* the type symbols of an index and the parents a type declares (SpecCH)
MaxTypes == 3
MaxParents == 1
\* the rules of a rule set (SpecRC)
MaxRules == 2
\* the entries of a walk of the rules directory (SpecLD)
MaxEntries == 3
\* the symbols of the index a report is generated from (SpecRP)
MaxNodes == 3
\* SpecSF: the longest file content and the longest pattern
MaxContent == 3
MaxPattern == 2
\* SpecVS: the nodes of a syntax tree below its root
MaxTreeNodes == 3
\* SpecMCP: the call_tool invocations of a run
NCalls == 4

Paths == {"a.java", "b.java"}
ClassNames == {"A", "B"}
Workers == 1..NWorkers
Caller == 0
Threads == {Caller} \cup Workers
Mtimes == 1..MaxMtime
NoPath == "-"

----------------------------------------------------------------------------
(* Source texts.  A text is described by what the extractor reads of it:   *)
(* whether it is valid UTF-8 and, per declaration, the name, the node      *)
(* kind, the byte length of the node's text and the byte offsets at which  *)
(* a three-byte character starts.                                          *)

Contents == {"classA", "classB", "wideA", "binary"}

Source(c) ==
    CASE c = "classA" -> [utf8 |-> TRUE,
                          decls |-> <<[name |-> "A", node |-> "class_declaration",
                                       len |-> 12, wide |-> {}]>>]
      [] c = "classB" -> [utf8 |-> TRUE,
                          decls |-> <<[name |-> "B", node |-> "class_declaration",
                                       len |-> 640, wide |-> {10}]>>]
      [] c = "wideA"  -> [utf8 |-> TRUE,
                          decls |-> <<[name |-> "A", node |-> "class_declaration",
                                       len |-> 640, wide |-> {499}]>>]
      [] OTHER        -> [utf8 |-> FALSE, decls |-> <<>>]

NoFile == [exists |-> FALSE, mtime |-> 0, content |-> "-"]

\* Path::extension
Extension(p) == IF p \in {"a.java", "b.java"} THEN "java" ELSE "txt"

\* ASTEngine::is_supported_file
is_supported_file(p) ==
    Extension(p) \in {"js", "jsx", "py", "java", "rs", "go", "ts", "tsx", "html",
                      "htm", "vue", "css", "json", "c", "h", "cpp", "hpp", "cc"}

----------------------------------------------------------------------------
(* Extraction (ASTParser::parse_file, extract_java_symbols) *)

\* the snippet limit of a Java type declaration
ClassCodeLimit == 500

\* str::is_char_boundary: offset i does not fall inside a multi-byte character
IsCharBoundary(d, i) == ~ \E s \in d.wide : s < i /\ i < s + 3

\* `if code.len() > 500 { format!("{}...", &code[..500]) } else { code }`:
\* the length of the snippet, or -1 when the slice panics
TruncateCode(d, limit) ==
    IF d.len > limit
    THEN IF IsCharBoundary(d, limit) THEN limit + 3 ELSE -1
    ELSE d.len

KindOf(d) == IF d.node = "class_declaration" THEN "Class" ELSE "Interface"

\* the Symbol pushed for a class_declaration / interface_declaration node
TypeSymbol(p, d) ==
    [name |-> d.name, kind |-> KindOf(d), file_path |-> p,
     code_len |-> TruncateCode(d, ClassCodeLimit), metadata |-> {}]

\* ASTParser::parse_file on the text c of path p:
\* [status: "ok" | "err" | "panic", symbols]
parse_file(p, c) ==
    LET ds == Source(c).decls
        syms == [i \in 1..Len(ds) |-> TypeSymbol(p, ds[i])]
    IN  IF ~ is_supported_file(p)
        THEN [status |-> "err", symbols |-> <<>>]
        ELSE IF \E i \in 1..Len(ds) : syms[i].code_len < 0
        THEN [status |-> "panic", symbols |-> <<>>]
        ELSE [status |-> "ok", symbols |-> syms]

----------------------------------------------------------------------------
(* CacheData *)

NoEntry == [present |-> FALSE, mtime |-> 0, symbols |-> <<>>]

EmptyCache ==
    [index |-> [p \in Paths |-> NoEntry],
     class_map |-> [n \in ClassNames |-> NoPath],
     build_time |-> "now"]

NotLoaded == [loaded |-> FALSE, cache |-> EmptyCache]


\* engine.rs line 139, 276: `matches!(symbol.kind, SymbolKind::Class)`
DeclaresClass(symbols, n) ==
    \E i \in 1..Len(symbols) : symbols[i].kind = "Class" /\ symbols[i].name = n

\* update_file, lines 133-146: insert the FileIndex, then one class_map.insert
\* per Class symbol of the file
InsertFile(cache, p, fi) ==
    [cache EXCEPT
        !.index[p] = fi,
        !.class_map = [n \in ClassNames |->
                          IF DeclaresClass(fi.symbols, n) THEN p ELSE @[n]]]

\* remove_file_from_cache: index.remove(path) and, when an entry was removed,
\* class_map.remove(name) for each Class symbol of the removed FileIndex
RemoveFile(cache, p) ==
    IF cache.index[p].present
    THEN [cache EXCEPT
            !.index[p] = NoEntry,
            !.class_map = [n \in ClassNames |->
                              IF DeclaresClass(cache.index[p].symbols, n)
                              THEN NoPath ELSE @[n]]]
    ELSE cache

----------------------------------------------------------------------------
(* The cache file (CacheManager::save_cache / load_cache, bincode) *)

Kinds == <<"Class", "Function", "Method", "MethodCall", "Interface", "Struct">>

\* a unit enum variant is written as its index in the declaration
KindIndex(k) == CHOOSE i \in 1..Len(Kinds) : Kinds[i] = k

\* bincode writes a serde_json::Value as its bare payload: the variant is not
\* recorded in the file
EncodeValue(v) == v.payload

EncodeSymbol(s) ==
    [name |-> s.name, kind |-> KindIndex(s.kind), file_path |-> s.file_path,
     code_len |-> s.code_len,
     metadata |-> {<<kv[1], EncodeValue(kv[2])>> : kv \in s.metadata}]

EncodeFileIndex(fi) ==
    [present |-> fi.present, mtime |-> fi.mtime,
     symbols |-> [i \in 1..Len(fi.symbols) |-> EncodeSymbol(fi.symbols[i])]]

\* the fields of CacheData, written in the order of the declaration
CacheFields == 3

\* bincode::serialize(cache_data); eof is where the file ends, in fields
Serialize(cache) ==
    [index |-> [p \in Paths |-> EncodeFileIndex(cache.index[p])],
     class_map |-> cache.class_map,
     build_time |-> cache.build_time,
     eof |-> CacheFields]

\* the file that fs::write leaves when the process dies after k fields
Truncate(blob, k) == [blob EXCEPT !.eof = k]

\* Reading a HashMap<String, serde_json::Value> back: an empty map has no value
\* to read; any value goes through Deserializer::deserialize_any, which bincode
\* does not support, so the read fails.
MetadataReadable(m) == m = {}

SymbolReadable(e) == MetadataReadable(e.metadata)

DecodeSymbol(e) ==
    [name |-> e.name, kind |-> Kinds[e.kind], file_path |-> e.file_path,
     code_len |-> e.code_len, metadata |-> {}]

DecodeFileIndex(e) ==
    [present |-> e.present, mtime |-> e.mtime,
     symbols |-> [i \in 1..Len(e.symbols) |-> DecodeSymbol(e.symbols[i])]]

\* bincode::deserialize::<CacheData>(&data): [ok, cache]
Deserialize(blob) ==
    IF blob.eof < CacheFields
    THEN [ok |-> FALSE, cache |-> EmptyCache]
    ELSE
    IF \A p \in Paths : \A i \in 1..Len(blob.index[p].symbols) :
            SymbolReadable(blob.index[p].symbols[i])
    THEN [ok |-> TRUE,
          cache |-> [index |-> [p \in Paths |-> DecodeFileIndex(blob.index[p])],
                     class_map |-> blob.class_map,
                     build_time |-> blob.build_time]]
    ELSE [ok |-> FALSE, cache |-> EmptyCache]

NoDisk == [exists |-> FALSE, blob |-> Serialize(EmptyCache)]

\* CacheManager::load_cache: Some(cache) or None
load_cache(d) ==
    IF ~ d.exists
    THEN [some |-> FALSE, cache |-> EmptyCache]
    ELSE LET r == Deserialize(d.blob)
         IN  [some |-> r.ok, cache |-> r.cache]

\* CacheManager::save_cache
save_cache(cache) == [exists |-> TRUE, blob |-> Serialize(cache)]

\* CacheManager::get_file_mtime: the mtime in whole seconds
get_file_mtime(f) == f.mtime

is_file_changed_always(f, cached_mtime) == get_file_mtime(f) >= 0

\* CacheManager::is_file_changed
is_file_changed(f, cached_mtime) == get_file_mtime(f) # cached_mtime


----------------------------------------------------------------------------
(* The engine: state after ASTEngine::new *)

NoLoc == [path |-> NoPath, content |-> "-", symbols |-> <<>>, mtime |-> 0,
          read |-> FALSE, prev |-> "-", attached |-> FALSE, old_mtime |-> 0]

NoScan == [pending |-> {}, ok |-> 0, panicked |-> FALSE, pre |-> EmptyCache]

NoLast == [op |-> "-", path |-> NoPath, result |-> "-",
           attached |-> FALSE, read |-> FALSE, mutated |-> FALSE, prev |-> "-",
           old_mtime |-> 0]

NoSeen == [valid |-> FALSE, cache |-> EmptyCache]

Free == -1

QueryOps == {"get_statistics", "search_symbols", "find_call_sites",
             "get_call_graph", "get_file_structure", "get_class_hierarchy"}

IdleRt == [pc |-> "off", cache |-> EmptyCache, file |-> NoDisk, crashed |-> FALSE,
           loaded |-> [some |-> FALSE, cache |-> EmptyCache]]

IdleCg == [pc |-> "off", calls |-> {}, functions |-> {}, arg |-> <<>>, entry |-> "", max_depth |-> 0,
           queue |-> <<>>, next_queue |-> <<>>, visited |-> {}, nodes |-> <<>>,
           edges |-> <<>>, depth |-> 0, current |-> "", todo |-> {}]

IdleCh == [pc |-> "off"]

IdleRc == [pc |-> "off"]

IdleLd == [pc |-> "off"]

IdleRp == [pc |-> "off"]

IdleSf == [pc |-> "off"]

IdleVs == [pc |-> "off"]

IdleMcp == [pc |-> "off"]

IdleLk == [pc |-> "off"]

EngineInit ==
    /\ files \in [Paths -> {NoFile} \cup
                    [exists : {TRUE}, mtime : Mtimes,
                     content : {"classA", "wideA"}]]
    /\ disk = NoDisk
    /\ query_engine = NotLoaded
    /\ cm_lock = [holder |-> Free, poisoned |-> FALSE]
    /\ parser_poisoned = FALSE
    /\ pc = [t \in Threads |-> "idle"]
    /\ loc = [t \in Threads |-> NoLoc]
    /\ scan = NoScan
    /\ last = NoLast
    /\ touched = FALSE
    /\ events = 0
    /\ seen = NoSeen

CallerIdle == pc[Caller] = "idle"

\* the caller starts an operation, or a file changes
Event == events < MaxEvents /\ events' = events + 1

----------------------------------------------------------------------------
(* The file system changes only between the caller's operations *)

FsWrite(p, c, m) ==
    /\ CallerIdle
    /\ Event
    /\ files' = [files EXCEPT ![p] = [exists |-> TRUE, mtime |-> m, content |-> c]]
    /\ files'[p] # files[p]
    /\ touched' = TRUE
    /\ seen' = NoSeen
    /\ scan' = NoScan
    /\ UNCHANGED <<disk, query_engine, cm_lock, parser_poisoned, pc, loc, last,
                   pureVars>>

FsDelete(p) ==
    /\ CallerIdle
    /\ Event
    /\ files[p].exists
    /\ files' = [files EXCEPT ![p] = NoFile]
    /\ touched' = TRUE
    /\ seen' = NoSeen
    /\ scan' = NoScan
    /\ UNCHANGED <<disk, query_engine, cm_lock, parser_poisoned, pc, loc, last,
                   pureVars>>

----------------------------------------------------------------------------
(* ASTEngine::use_repository (attach) *)

\* `cache_manager.lock().unwrap()` panics when the mutex is poisoned
Attach ==
    /\ CallerIdle
    /\ Event
    /\ cm_lock.holder = Free
    /\ IF cm_lock.poisoned
       THEN /\ last' = [NoLast EXCEPT !.op = "attach", !.result = "Panic",
                                      !.attached = query_engine.loaded]
            /\ UNCHANGED query_engine
       ELSE LET c == load_cache(disk)
                q == [loaded |-> TRUE,
                      cache |-> IF c.some THEN c.cache ELSE EmptyCache]
            IN  /\ query_engine' = q
                /\ last' = [NoLast EXCEPT !.op = "attach", !.result = "Ok",
                                          !.attached = query_engine.loaded,
                                          !.mutated = (q # query_engine)]
    /\ touched' = FALSE
    /\ seen' = NoSeen
    /\ scan' = NoScan
    /\ UNCHANGED <<files, disk, cm_lock, parser_poisoned, pc, loc, pureVars>>

----------------------------------------------------------------------------
(* ASTEngine::save_cache (persist) *)

Persist ==
    /\ CallerIdle
    /\ Event
    /\ cm_lock.holder = Free
    /\ IF cm_lock.poisoned
       THEN /\ last' = [NoLast EXCEPT !.op = "persist", !.result = "Panic",
                                      !.attached = query_engine.loaded]
            /\ UNCHANGED disk
       ELSE /\ disk' = IF query_engine.loaded
                       THEN save_cache(query_engine.cache) ELSE disk
            /\ last' = [NoLast EXCEPT !.op = "persist", !.result = "Ok",
                                      !.attached = query_engine.loaded]
    /\ touched' = FALSE
    /\ seen' = NoSeen
    /\ scan' = NoScan
    /\ UNCHANGED <<files, query_engine, cm_lock, parser_poisoned, pc, loc, pureVars>>

----------------------------------------------------------------------------
(* The queries: get_statistics, search_symbols, find_call_sites,           *)
(* get_call_graph, get_file_structure, get_class_hierarchy                 *)

\* `if let Some(ref engine) = *query_engine { Ok(..) } else { Err("No cache loaded") }`
QueryResult(q) == IF q.loaded THEN "Ok" ELSE "NoIndex"

\* a query of the caller, between its other operations
Query(op) ==
    /\ CallerIdle
    /\ Event
    /\ last' = [NoLast EXCEPT !.op = "query", !.result = QueryResult(query_engine),
                              !.attached = query_engine.loaded]
    /\ touched' = FALSE
    /\ seen' = NoSeen
    /\ scan' = NoScan
    /\ UNCHANGED <<files, disk, query_engine, cm_lock, parser_poisoned, pc, loc,
                   pureVars>>

\* a query of another thread while the caller's scan is in flight: it takes the
\* query_engine mutex, which no thread holds between two steps
ReaderQuery(op) ==
    /\ pc[Caller] = "s_wait"
    /\ query_engine.loaded
    /\ seen' = [valid |-> TRUE, cache |-> query_engine.cache]
    /\ seen' # seen
    /\ UNCHANGED <<files, disk, query_engine, cm_lock, parser_poisoned, pc, loc,
                   scan, last, touched, events, pureVars>>


----------------------------------------------------------------------------
(* ASTEngine::update_file, one step per blocking call or file access.      *)
(* Thread t runs it on loc[t].path: the caller directly, a worker for one  *)
(* file of the scan.                                                       *)

\* update_file returns (res: "Ok" | "Err") or unwinds (res = "Panic"), leaving
\* the engine holding q.  The MutexGuard of cache_manager is dropped either
\* way; dropped during a panic, it poisons the mutex.
ReturnWith(t, res, q, didRead) ==
    /\ query_engine' = q
    /\ pc' = [pc EXCEPT ![t] = "idle"]
    /\ loc' = [loc EXCEPT ![t] = NoLoc]
    /\ IF cm_lock.holder = t
       THEN cm_lock' = [holder |-> Free,
                        poisoned |-> cm_lock.poisoned \/ res = "Panic"]
       ELSE cm_lock' = cm_lock
    /\ IF t = Caller
       THEN /\ last' = [op |-> "update", path |-> loc[t].path, result |-> res,
                        attached |-> loc[t].attached,
                        read |-> didRead, mutated |-> (q # query_engine),
                        prev |-> loc[t].prev, old_mtime |-> loc[t].old_mtime]
            /\ touched' = FALSE
            /\ scan' = scan
       ELSE /\ scan' = [scan EXCEPT !.ok = IF res = "Ok" THEN @ + 1 ELSE @,
                                    !.panicked = @ \/ res = "Panic"]
            /\ UNCHANGED <<last, touched>>

Return(t, res, q) == ReturnWith(t, res, q, loc[t].read)

\* the return of a call whose read_to_string failed
ReturnAfterRead(t, res, q) == ReturnWith(t, res, q, TRUE)

\* the caller calls update_file(p)
UpdateBegin(p) ==
    /\ CallerIdle
    /\ Event
    /\ pc' = [pc EXCEPT ![Caller] = "u_exists"]
    /\ loc' = [loc EXCEPT ![Caller] =
                  [NoLoc EXCEPT !.path = p,
                                !.attached = query_engine.loaded,
                                !.old_mtime =
                                    IF query_engine.loaded
                                    THEN query_engine.cache.index[p].mtime
                                    ELSE 0,
                                !.prev = IF last.op = "update" /\ last.path = p
                                            /\ ~ touched
                                         THEN last.result ELSE "-"]]
    /\ seen' = NoSeen
    /\ scan' = NoScan
    /\ UNCHANGED <<files, disk, query_engine, cm_lock, parser_poisoned, last,
                   touched, pureVars>>

\* lines 96-100: `if !file_path.exists() { self.remove_file_from_cache(..); return Ok(()) }`
UExists(t) ==
    /\ pc[t] = "u_exists"
    /\ IF files[loc[t].path].exists
       THEN /\ pc' = [pc EXCEPT ![t] = "u_lock"]
            /\ UNCHANGED <<query_engine, cm_lock, loc, scan, last, touched>>
       ELSE Return(t, "Ok",
                   IF query_engine.loaded
                   THEN [query_engine EXCEPT
                            !.cache = RemoveFile(@, loc[t].path)]
                   ELSE query_engine)
    /\ UNCHANGED <<files, disk, parser_poisoned, seen, events, pureVars>>

\* line 102: `let cache_manager = self.cache_manager.lock().unwrap();`
ULock(t) ==
    /\ pc[t] = "u_lock"
    /\ cm_lock.holder = Free
    /\ IF cm_lock.poisoned
       THEN Return(t, "Panic", query_engine)
       ELSE /\ cm_lock' = [cm_lock EXCEPT !.holder = t]
            /\ pc' = [pc EXCEPT ![t] = "u_check"]
            /\ UNCHANGED <<query_engine, loc, scan, last, touched>>
    /\ UNCHANGED <<files, disk, parser_poisoned, seen, events, pureVars>>

\* lines 106-114: needs_update
needs_update(q, p, f) ==
    IF q.loaded /\ q.cache.index[p].present
    THEN is_file_changed(f, q.cache.index[p].mtime)
    ELSE TRUE

\* lines 104-118: the change check; fs::metadata fails on a missing file
UCheck(t) ==
    /\ pc[t] = "u_check"
    /\ LET p == loc[t].path
       IN  IF query_engine.loaded /\ query_engine.cache.index[p].present
              /\ ~ files[p].exists
           THEN Return(t, "Err", query_engine)
           ELSE IF needs_update(query_engine, p, files[p])
           THEN /\ pc' = [pc EXCEPT ![t] = "u_read"]
                /\ UNCHANGED <<query_engine, cm_lock, loc, scan, last, touched>>
           ELSE Return(t, "Ok", query_engine)
    /\ UNCHANGED <<files, disk, parser_poisoned, seen, events, pureVars>>

\* a read_to_string whose failure drops the FileIndex of the path
UReadDropping(t) ==
    /\ pc[t] = "u_read"
    /\ LET p == loc[t].path
       IN  IF files[p].exists /\ Source(files[p].content).utf8
           THEN /\ loc' = [loc EXCEPT ![t].content = files[p].content,
                                      ![t].read = TRUE]
                /\ pc' = [pc EXCEPT ![t] = "u_parse"]
                /\ UNCHANGED <<query_engine, cm_lock, scan, last, touched>>
           ELSE ReturnAfterRead(t, "Err",
                                [query_engine EXCEPT !.cache = RemoveFile(@, p)])
    /\ UNCHANGED <<files, disk, parser_poisoned, seen, events, pureVars>>

\* lines 121-122: std::fs::read_to_string fails on a missing file and on a
\* text that is not valid UTF-8
URead(t) ==
    /\ pc[t] = "u_read"
    /\ LET p == loc[t].path
       IN  IF files[p].exists /\ Source(files[p].content).utf8
           THEN /\ loc' = [loc EXCEPT ![t].content = files[p].content,
                                      ![t].read = TRUE]
                /\ pc' = [pc EXCEPT ![t] = "u_parse"]
                /\ UNCHANGED <<query_engine, cm_lock, scan, last, touched>>
           ELSE ReturnAfterRead(t, "Err", query_engine)
    /\ UNCHANGED <<files, disk, parser_poisoned, seen, events, pureVars>>

\* lines 124-127: `self.parser.lock().unwrap()` and parser.parse_file; a panic
\* in parse_file unwinds through both guards
UParse(t) ==
    /\ pc[t] = "u_parse"
    /\ LET r == parse_file(loc[t].path, loc[t].content)
       IN  IF parser_poisoned
           THEN /\ Return(t, "Panic", query_engine)
                /\ UNCHANGED parser_poisoned
           ELSE IF r.status = "panic"
           THEN /\ Return(t, "Panic", query_engine)
                /\ parser_poisoned' = TRUE
           ELSE IF r.status = "err"
           THEN /\ Return(t, "Err", query_engine)
                /\ UNCHANGED parser_poisoned
           ELSE /\ loc' = [loc EXCEPT ![t].symbols = r.symbols]
                /\ pc' = [pc EXCEPT ![t] = "u_mtime"]
                /\ UNCHANGED <<query_engine, cm_lock, scan, last, touched,
                               parser_poisoned>>
    /\ UNCHANGED <<files, disk, seen, events, pureVars>>

\* line 130: `let mtime = cache_manager.get_file_mtime(file_path)?;`
UMtime(t) ==
    /\ pc[t] = "u_mtime"
    /\ LET p == loc[t].path
       IN  IF files[p].exists
           THEN /\ loc' = [loc EXCEPT ![t].mtime = get_file_mtime(files[p])]
                /\ pc' = [pc EXCEPT ![t] = "u_merge"]
                /\ UNCHANGED <<query_engine, cm_lock, scan, last, touched>>
           ELSE Return(t, "Err", query_engine)
    /\ UNCHANGED <<files, disk, parser_poisoned, seen, events, pureVars>>

\* lines 131-148: the merge under the query_engine mutex
UMerge(t) ==
    /\ pc[t] = "u_merge"
    /\ LET fi == [present |-> TRUE, mtime |-> loc[t].mtime,
                  symbols |-> loc[t].symbols]
       IN  Return(t, "Ok",
                  IF query_engine.loaded
                  THEN [query_engine EXCEPT
                           !.cache = InsertFile(@, loc[t].path, fi)]
                  ELSE query_engine)
    /\ UNCHANGED <<files, disk, parser_poisoned, seen, events, pureVars>>


----------------------------------------------------------------------------
(* ASTEngine::scan_project *)

WorkersIdle == \A w \in Workers : pc[w] = "idle"

\* lines 45-67: the walk collects the supported files under the root
ScanBegin(root_exists) ==
    /\ CallerIdle
    /\ Event
    /\ IF root_exists
       THEN /\ pc' = [pc EXCEPT ![Caller] = "s_wait"]
            /\ scan' = [pending |-> {p \in Paths : files[p].exists
                                                   /\ is_supported_file(p)},
                        ok |-> 0, panicked |-> FALSE,
                        pre |-> query_engine.cache]
            /\ UNCHANGED <<last, touched>>
       ELSE /\ last' = [NoLast EXCEPT !.op = "scan", !.result = "Err",
                                      !.attached = query_engine.loaded]
            /\ touched' = FALSE
            /\ scan' = NoScan
            /\ UNCHANGED pc
    /\ seen' = NoSeen
    /\ UNCHANGED <<files, disk, query_engine, cm_lock, parser_poisoned, loc,
                   pureVars>>

\* lines 70-80: a pool thread takes the next file of the par_iter and calls
\* update_file on it.  The pool threads are interchangeable: of the idle ones
\* the lowest-numbered takes the file.
WorkerTake(w, p) ==
    /\ pc[Caller] = "s_wait"
    /\ pc[w] = "idle"
    /\ \A v \in Workers : v < w => pc[v] # "idle"
    /\ p \in scan.pending
    /\ scan' = [scan EXCEPT !.pending = @ \ {p}]
    /\ pc' = [pc EXCEPT ![w] = "u_exists"]
    /\ loc' = [loc EXCEPT ![w] = [NoLoc EXCEPT !.path = p,
                                               !.attached = query_engine.loaded]]
    /\ UNCHANGED <<files, disk, query_engine, cm_lock, parser_poisoned, last,
                   touched, seen, events, pureVars>>

\* lines 82-92: every file was handled: save_cache, then Ok(processed_files.len())
ScanFinish ==
    /\ pc[Caller] = "s_wait"
    /\ scan.pending = {}
    /\ WorkersIdle
    /\ ~ scan.panicked
    /\ cm_lock.holder = Free
    /\ IF cm_lock.poisoned
       THEN /\ last' = [NoLast EXCEPT !.op = "scan", !.result = "Panic",
                                      !.attached = query_engine.loaded]
            /\ UNCHANGED disk
       ELSE /\ disk' = IF query_engine.loaded
                       THEN save_cache(query_engine.cache) ELSE disk
            /\ last' = [NoLast EXCEPT !.op = "scan", !.result = "Ok",
                                      !.attached = query_engine.loaded,
                                      !.mutated = (query_engine.cache # scan.pre)]
    /\ pc' = [pc EXCEPT ![Caller] = "idle"]
    /\ scan' = [scan EXCEPT !.ok = 0]
    /\ touched' = FALSE
    /\ UNCHANGED <<files, query_engine, cm_lock, parser_poisoned, loc, seen,
                   events, pureVars>>

\* a panic in a pool thread is resumed in the caller of par_iter once the pool
\* threads have stopped: scan_project unwinds before save_cache, and the files
\* not yet taken are dropped
ScanAbort ==
    /\ pc[Caller] = "s_wait"
    /\ scan.panicked
    /\ WorkersIdle
    /\ last' = [NoLast EXCEPT !.op = "scan", !.result = "Panic",
                              !.attached = query_engine.loaded,
                              !.mutated = (query_engine.cache # scan.pre)]
    /\ pc' = [pc EXCEPT ![Caller] = "idle"]
    /\ scan' = [scan EXCEPT !.ok = 0, !.pending = {}]
    /\ touched' = FALSE
    /\ UNCHANGED <<files, disk, query_engine, cm_lock, parser_poisoned, loc,
                   seen, events, pureVars>>

----------------------------------------------------------------------------
(* The engine's specification *)

Next ==
    \/ \E p \in Paths, c \in Contents, m \in Mtimes : FsWrite(p, c, m)
    \/ \E p \in Paths : FsDelete(p)
    \/ Attach
    \/ Persist
    \/ \E op \in QueryOps : Query(op)
    \/ \E op \in QueryOps : ReaderQuery(op)
    \/ \E p \in Paths : UpdateBegin(p)
    \/ \E t \in Threads : UExists(t)
    \/ \E t \in Threads : ULock(t)
    \/ \E t \in Threads : UCheck(t)
    \/ \E t \in Threads : URead(t)
    \/ \E t \in Threads : UParse(t)
    \/ \E t \in Threads : UMtime(t)
    \/ \E t \in Threads : UMerge(t)
    \/ \E r \in BOOLEAN : ScanBegin(r)
    \/ \E w \in Workers, p \in Paths : WorkerTake(w, p)
    \/ ScanFinish
    \/ ScanAbort

\* the engine, not started
EngineOff ==
    /\ files = [p \in Paths |-> NoFile]
    /\ disk = NoDisk
    /\ query_engine = NotLoaded
    /\ cm_lock = [holder |-> Free, poisoned |-> FALSE]
    /\ parser_poisoned = FALSE
    /\ pc = [t \in Threads |-> "idle"]
    /\ loc = [t \in Threads |-> NoLoc]
    /\ scan = NoScan
    /\ last = NoLast
    /\ touched = FALSE
    /\ events = 0
    /\ seen = NoSeen

engineVars == <<files, disk, query_engine, cm_lock, parser_poisoned, pc, loc,
                scan, last, touched, events, seen>>

\* what each specification leaves unchanged
rtFrame == <<engineVars, cg, ch, rc, ld, rp, sf, vs, mcp, lk>>
cgFrame == <<engineVars, rt, ch, rc, ld, rp, sf, vs, mcp, lk>>
chFrame == <<engineVars, rt, cg, rc, ld, rp, sf, vs, mcp, lk>>
rcFrame == <<engineVars, rt, cg, ch, ld, rp, sf, vs, mcp, lk>>
ldFrame == <<engineVars, rt, cg, ch, rc, rp, sf, vs, mcp, lk>>
rpFrame == <<engineVars, rt, cg, ch, rc, ld, sf, vs, mcp, lk>>
sfFrame == <<engineVars, rt, cg, ch, rc, ld, rp, vs, mcp, lk>>
vsFrame == <<engineVars, rt, cg, ch, rc, ld, rp, sf, mcp, lk>>
mcpFrame == <<engineVars, rt, cg, ch, rc, ld, rp, sf, vs, lk>>
lkFrame == <<engineVars, rt, cg, ch, rc, ld, rp, sf, vs, mcp>>

\* the functions checked on their own are not running, except those named
OthersIdle(running) ==
    /\ "rt" \in running \/ rt = IdleRt
    /\ "cg" \in running \/ cg = IdleCg
    /\ "ch" \in running \/ ch = IdleCh
    /\ "rc" \in running \/ rc = IdleRc
    /\ "ld" \in running \/ ld = IdleLd
    /\ "rp" \in running \/ rp = IdleRp
    /\ "sf" \in running \/ sf = IdleSf
    /\ "vs" \in running \/ vs = IdleVs
    /\ "mcp" \in running \/ mcp = IdleMcp
    /\ "lk" \in running \/ lk = IdleLk

Init == EngineInit /\ OthersIdle({})

Spec == Init /\ [][Next]_vars


----------------------------------------------------------------------------
(* Properties of the engine *)

TypeKinds == {"Class", "Interface", "Struct"}

DeclaresType(symbols, n) ==
    \E i \in 1..Len(symbols) : symbols[i].kind \in TypeKinds /\ symbols[i].name = n

\* C1: after attach, every name in the class map maps to a file whose
\* FileIndex is in the index and holds a type-kind Symbol of that name.
C1_ClassMapResolves ==
    query_engine.loaded =>
        \A n \in ClassNames :
            LET f == query_engine.cache.class_map[n]
            IN  f # NoPath =>
                    /\ query_engine.cache.index[f].present
                    /\ DeclaresType(query_engine.cache.index[f].symbols, n)

\* C2: a scan of an existing root, after attach, returns Ok having saved the
\* cache, and leaves no engine mutex poisoned, whatever the files hold.
C2_ScanIsolatesFailures ==
    (CallerIdle /\ last.op = "scan" /\ last.attached /\ last.result # "Err") =>
        /\ last.result = "Ok"
        /\ disk = save_cache(query_engine.cache)
        /\ ~ cm_lock.poisoned
        /\ ~ parser_poisoned

\* C3: an operation invoked before attach returns the "no index loaded" error
\* and changes no state.
C3_NoIndexBeforeAttach ==
    (last.op \in {"scan", "update", "persist", "query"} /\ ~ last.attached) =>
        /\ last.result = "NoIndex"
        /\ ~ last.mutated

\* C5, as stated: after attach, the second of two successive update(path)
\* calls with no file change between them reads nothing and changes nothing.
C5_SecondUpdateNeverReads ==
    (last.op = "update" /\ last.attached /\ last.prev # "-") =>
        /\ ~ last.read
        /\ ~ last.mutated

\* C5, amended: after attach, when update(path) has returned Ok, a second
\* update(path) with no file change between the two reads nothing, changes
\* neither the FileIndex nor the class map, and returns Ok.
C5_SecondUpdateAfterOkIsNoOp ==
    (last.op = "update" /\ last.attached /\ last.prev = "Ok") =>
        /\ ~ last.read
        /\ ~ last.mutated
        /\ last.result = "Ok"

\* the second of two successive updates of an indexed, existing file has
\* returned
C5_Witness ==
    /\ CallerIdle /\ last.op = "update" /\ last.attached /\ last.prev = "Ok"
    /\ ~ touched
    /\ files[last.path].exists
    /\ query_engine.cache.index[last.path].present

\* C6: when the mtime of an indexed file differs from the stored one, later
\* or earlier, update(path) reads the file again and, returning Ok, leaves as
\* its FileIndex exactly the observed mtime and the symbols of the current text.
C6_ChangedMtimeReextracts ==
    (/\ CallerIdle /\ last.op = "update" /\ last.attached /\ ~ touched
     /\ last.old_mtime # 0
     /\ files[last.path].exists
     /\ files[last.path].mtime # last.old_mtime) =>
        /\ last.read
        /\ last.result = "Ok" =>
              query_engine.cache.index[last.path] =
                  [present |-> TRUE,
                   mtime |-> files[last.path].mtime,
                   symbols |-> parse_file(last.path,
                                          files[last.path].content).symbols]

\* C7: update(path) of a path that no longer exists removes the FileIndex of
\* path and exactly the class-map entries that map to path; the other
\* FileIndexes and class-map entries are unchanged.
C7_DeleteRemovesOwnEntriesOnly ==
    [][\A t \in Threads :
          (/\ pc[t] = "u_exists" /\ pc'[t] = "idle"
           /\ ~ files[loc[t].path].exists
           /\ query_engine.loaded) =>
              LET p == loc[t].path
                  old == query_engine.cache
                  new == query_engine'.cache
              IN  /\ ~ new.index[p].present
                  /\ \A q \in Paths \ {p} : new.index[q] = old.index[q]
                  /\ \A n \in ClassNames :
                        new.class_map[n] = IF old.class_map[n] = p
                                           THEN NoPath ELSE old.class_map[n]
      ]_vars

\* C8: a query that ran during a scan saw the index as it was before the scan
\* or as it is after it.
C8_QueriesSeeWholeScans ==
    (CallerIdle /\ last.op = "scan" /\ last.result = "Ok" /\ seen.valid) =>
        seen.cache \in {scan.pre, query_engine.cache}

\* C9: a pool thread that is reading or parsing a file holds no engine mutex.
C9_ExtractionHoldsNoLock ==
    \A w \in Workers : pc[w] \in {"u_read", "u_parse"} => cm_lock.holder # w


----------------------------------------------------------------------------
(* SpecCache: load_cache after save_cache, on any CacheData of the bounds *)

\* serde_json::Value::String
JsonString(x) == [type |-> "String", payload |-> x]

\* the symbols a FileIndex of path p may hold: a class (no metadata, as the
\* extractors build it), a method and a call site (whose metadata name the
\* enclosing type and function)
SymbolsOf(p) ==
    { [name |-> "A", kind |-> "Class", file_path |-> p, code_len |-> 12,
       metadata |-> {}],
      [name |-> "m", kind |-> "Method", file_path |-> p, code_len |-> 30,
       metadata |-> {<<"ownerClass", JsonString("A")>>}],
      [name |-> "g", kind |-> "MethodCall", file_path |-> p, code_len |-> 5,
       metadata |-> {<<"callerClass", JsonString("A")>>,
                     <<"callerMethod", JsonString("m")>>}] }

SeqsUpTo(S, n) == UNION { [1..k -> S] : k \in 0..n }

FileIndexesOf(p) ==
    {NoEntry} \cup
    [present : {TRUE}, mtime : Mtimes, symbols : SeqsUpTo(SymbolsOf(p), MaxSymbols)]

CacheDatas ==
    { [index |-> ix, class_map |-> cm, build_time |-> bt] :
        ix \in { f \in [Paths -> UNION { FileIndexesOf(p) : p \in Paths }] :
                    \A p \in Paths : f[p] \in FileIndexesOf(p) },
        cm \in [ClassNames -> {NoPath, "a.java"}],
        bt \in {"now", "then"} }

CacheInit ==
    /\ rt \in [pc : {"start"}, cache : CacheDatas, file : {NoDisk},
               crashed : {FALSE}, loaded : {IdleRt.loaded}]
    /\ OthersIdle({"rt"})
    /\ EngineOff

\* cache_manager.save_cache(&cache)
RtSave ==
    /\ rt.pc = "start"
    /\ rt' = [rt EXCEPT !.pc = "saved", !.file = save_cache(rt.cache)]
    /\ UNCHANGED rtFrame

\* the process dies inside fs::write (line 85), k fields written
RtSaveCrash(k) ==
    /\ rt.pc = "start"
    /\ rt' = [rt EXCEPT !.pc = "saved", !.crashed = TRUE,
                        !.file = [exists |-> TRUE,
                                  blob |-> Truncate(Serialize(rt.cache), k)]]
    /\ UNCHANGED rtFrame

\* cache_manager.load_cache(), after a save or with no cache file
RtLoad ==
    /\ rt.pc \in {"start", "saved"}
    /\ rt' = [rt EXCEPT !.pc = "loaded", !.loaded = load_cache(rt.file)]
    /\ UNCHANGED rtFrame

CacheNext ==
    \/ RtSave
    \/ \E k \in 0..(CacheFields - 1) : RtSaveCrash(k)
    \/ RtLoad

SpecCache == CacheInit /\ [][CacheNext]_vars

\* C4: load after a completed save(C) returns a CacheData equal to C, field
\* by field, also when Symbols of C carry metadata.
C4_LoadReturnsSaved ==
    (rt.pc = "loaded" /\ rt.file.exists /\ ~ rt.crashed) =>
        /\ rt.loaded.some
        /\ rt.loaded.cache.index = rt.cache.index
        /\ rt.loaded.cache.class_map = rt.cache.class_map
        /\ rt.loaded.cache.build_time = rt.cache.build_time


----------------------------------------------------------------------------
(* SpecCG: QueryEngine::get_call_graph, one step per loop iteration.       *)
(* The index is given by its MethodCall symbols: the name is the callee,   *)
(* the callerMethod / callerFunction metadata the caller.  A string is a   *)
(* sequence of characters; a name is one character here.  Two call sites   *)
(* of one function in one caller differ by their start_line.  caller is   *)
(* the string the code reads from the metadata (callerMethod, else         *)
(* callerFunction).                                                        *)

Names == {"f", "g", "h"}
Space == " "

Lines == {1, 2}

CallSymbols == [caller : Names, callee : Names, start_line : Lines]

\* the call sites of a caller to a callee are numbered from line 1
CallSets ==
    { S \in SUBSET CallSymbols :
        /\ Cardinality(S) <= MaxCalls
        /\ \A s \in S : s.start_line > 1 =>
                           [s EXCEPT !.start_line = @ - 1] \in S }

EntryArgs == { <<"f">>, <<"g">>, <<Space, "f">>, <<"h", Space>>, <<Space>>, <<>> }

RECURSIVE TrimStart(_)
TrimStart(x) == IF x # <<>> /\ Head(x) = Space THEN TrimStart(Tail(x)) ELSE x

RECURSIVE TrimEnd(_)
TrimEnd(x) ==
    IF x # <<>> /\ x[Len(x)] = Space THEN TrimEnd(SubSeq(x, 1, Len(x) - 1)) ELSE x

\* str::trim; the trimmed entry is empty or a name
Trim(x) == LET y == TrimEnd(TrimStart(x)) IN IF y = <<>> THEN "" ELSE y[1]

Range(q) == { q[i] : i \in 1..Len(q) }

NodeInsertAlways(nodes, n) == Append(nodes, n)

\* `nodes.entry(n).or_insert_with(..)`: the node is added when no node has the
\* key n.  nodes lists the values of the map.
NodeInsert(nodes, n) == IF n \in Range(nodes) THEN nodes ELSE Append(nodes, n)

\* the Function and Method symbols of the index: the enclosing function of
\* every call site, and possibly the other names
FunctionSets(calls) == { { s.caller : s \in calls }, Names }

CgInit ==
    /\ \E calls \in CallSets :
         cg \in [pc : {"start"}, calls : {calls}, functions : FunctionSets(calls),
                 arg : EntryArgs, entry : {""},
                 max_depth : 0..MaxDepth, queue : {<<>>}, next_queue : {<<>>},
                 visited : {{}}, nodes : {<<>>}, edges : {<<>>}, depth : {0},
                 current : {""}, todo : {{}}]
    /\ OthersIdle({"cg"})
    /\ EngineOff

\* lines 51-66: trim; an empty entry returns the empty graph
CgStart ==
    /\ cg.pc = "start"
    /\ LET e == Trim(cg.arg)
       IN  cg' = IF e = ""
                 THEN [cg EXCEPT !.pc = "done", !.entry = e]
                 ELSE [cg EXCEPT !.pc = "outer", !.entry = e, !.queue = <<e>>]
    /\ UNCHANGED cgFrame

CgOuterOneMore ==
    /\ cg.pc = "outer"
    /\ cg' = IF cg.queue # <<>> /\ cg.depth <= cg.max_depth
             THEN [cg EXCEPT !.pc = "inner", !.next_queue = <<>>]
             ELSE [cg EXCEPT !.pc = "done"]
    /\ UNCHANGED cgFrame

\* line 68: `while !queue.is_empty() && depth < max_depth`
CgOuter ==
    /\ cg.pc = "outer"
    /\ cg' = IF cg.queue # <<>> /\ cg.depth < cg.max_depth
             THEN [cg EXCEPT !.pc = "inner", !.next_queue = <<>>]
             ELSE [cg EXCEPT !.pc = "done"]
    /\ UNCHANGED cgFrame

\* lines 71-83 and 129-130: pop the front of the queue; a visited name is
\* skipped; the end of the queue ends the level
CgInner ==
    /\ cg.pc = "inner"
    /\ cg' = IF cg.queue = <<>>
             THEN [cg EXCEPT !.pc = "outer", !.queue = cg.next_queue,
                             !.next_queue = <<>>, !.depth = @ + 1]
             ELSE LET current == Head(cg.queue)
                  IN  IF current \in cg.visited
                      THEN [cg EXCEPT !.queue = Tail(@)]
                      ELSE [cg EXCEPT !.queue = Tail(@),
                                      !.visited = @ \cup {current},
                                      !.nodes = NodeInsert(@, current),
                                      !.current = current,
                                      !.todo = cg.calls,
                                      !.pc = "symbols"]
    /\ UNCHANGED cgFrame

\* lines 86-126: the next MethodCall symbol of the index, in the map's order
CgSymbol(sym) ==
    /\ cg.pc = "symbols"
    /\ sym \in cg.todo
    /\ cg' = IF sym.caller = cg.current
             THEN [cg EXCEPT !.todo = @ \ {sym},
                             !.nodes = NodeInsert(@, sym.callee),
                             !.edges = Append(@, <<sym.caller, sym.callee,
                                                  sym.start_line>>),
                             !.next_queue = IF sym.callee \in cg.visited
                                            THEN @ ELSE Append(@, sym.callee)]
             ELSE [cg EXCEPT !.todo = @ \ {sym}]
    /\ UNCHANGED cgFrame

\* the index is exhausted: back to the pop
CgSymbolsEnd ==
    /\ cg.pc = "symbols"
    /\ cg.todo = {}
    /\ cg' = [cg EXCEPT !.pc = "inner", !.current = ""]
    /\ UNCHANGED cgFrame

CgNext ==
    \/ CgStart
    \/ CgOuter
    \/ CgInner
    \/ \E sym \in CallSymbols : CgSymbol(sym)
    \/ CgSymbolsEnd

\* lines 133-137 (and 53-57): the returned document
CgResult == [entry |-> cg.entry, nodes |-> cg.nodes, edges |-> cg.edges]

\* get_call_graph runs on the calling thread and is not suspended for ever
SpecCG == CgInit /\ [][CgNext]_vars /\ WF_vars(CgNext)

NoDuplicates(q) == \A i, j \in 1..Len(q) : q[i] = q[j] => i = j

\* C10: get_call_graph terminates, for every index (cyclic and self-recursive
\* ones included), entry and max_depth, and no name is twice in its nodes.
C10_CallGraphTerminatesNodesUnique ==
    /\ <>(cg.pc = "done")
    /\ [](NoDuplicates(cg.nodes))

\* a call graph over a cyclic caller/callee relation has returned, having met
\* a name again
C10_Witness ==
    /\ cg.pc = "done"
    /\ \E s, t \in cg.calls :
          /\ s.caller # s.callee
          /\ t.caller = s.callee /\ t.callee = s.caller
          /\ cg.entry = s.caller
    /\ Len(cg.edges) > Len(cg.nodes)

\* the names reachable from e in at most k caller-to-callee steps; none for
\* k < 0
RECURSIVE ReachWithin(_, _, _)
ReachWithin(calls, e, k) ==
    IF k < 0 THEN {}
    ELSE IF k = 0 THEN {e}
    ELSE LET R == ReachWithin(calls, e, k - 1)
         IN  R \cup { s.callee : s \in { c \in calls : c.caller \in R } }

\* the MethodCall symbols whose caller is reachable in fewer than k steps
CallsWithin(calls, e, k) ==
    { s \in calls : s.caller \in ReachWithin(calls, e, k - 1) }

EdgeOf(s) == <<s.caller, s.callee, s.start_line>>

\* C11: for a non-blank entry, the nodes of the returned graph are exactly the
\* names reachable from entry in at most max_depth steps (entry included, for
\* every max_depth >= 0) and its edges exactly one edge per MethodCall symbol
\* whose caller is reachable in fewer than max_depth steps.
C11_CallGraphIsBoundedReachability ==
    (cg.pc = "done" /\ cg.entry # "") =>
        /\ Range(cg.nodes) = ReachWithin(cg.calls, cg.entry, cg.max_depth)
        /\ NoDuplicates(cg.edges)
        /\ Range(cg.edges) =
              { EdgeOf(s) : s \in CallsWithin(cg.calls, cg.entry, cg.max_depth) }

\* C11, amended: for a non-blank entry and max_depth >= 1 the nodes are exactly
\* the names reachable in at most max_depth steps and the edges exactly one
\* per MethodCall symbol whose caller is reachable in fewer than max_depth
\* steps; for max_depth = 0 the graph has no node and no edge.
C11_CallGraphBoundedFromDepthOne ==
    (cg.pc = "done" /\ cg.entry # "") =>
        /\ Range(cg.nodes) = IF cg.max_depth = 0 THEN {}
                             ELSE ReachWithin(cg.calls, cg.entry, cg.max_depth)
        /\ NoDuplicates(cg.edges)
        /\ Range(cg.edges) =
              { EdgeOf(s) : s \in CallsWithin(cg.calls, cg.entry, cg.max_depth) }

\* a call graph has returned that max_depth cut short: a call site of a node
\* at distance max_depth is left out, and two edges are in
C11_Witness ==
    /\ cg.pc = "done" /\ cg.entry # "" /\ cg.max_depth >= 1
    /\ Len(cg.edges) >= 2
    /\ CallsWithin(cg.calls, cg.entry, cg.max_depth + 1) #
           CallsWithin(cg.calls, cg.entry, cg.max_depth)


----------------------------------------------------------------------------
(* SpecCH: QueryEngine::get_class_hierarchy over an index of type symbols, *)
(* one step per iteration of the upward loop.  The class map is one that   *)
(* update_file or rebuild_class_map builds from the index: a name maps to  *)
(* a file that declares a Class of that name.                              *)

TypeNames == {"A", "B", "C"}

TypeAttrs == [kind : {"Class", "Interface"},
              parent_classes : SeqsUpTo(TypeNames, MaxParents)]

TypeKeys == { K \in SUBSET (TypeNames \X Paths) : Cardinality(K) <= MaxTypes }

\* the indexes: at most one type symbol of a name in a file
TypeIndexes ==
    UNION { { { [name |-> k[1], file_path |-> k[2], kind |-> f[k].kind,
                 parent_classes |-> f[k].parent_classes] : k \in K }
              : f \in [K -> TypeAttrs] }
            : K \in TypeKeys }

\* update_file lines 138-144 and rebuild_class_map: Class symbols only, the
\* last file merged wins
ClassMapsOf(index) ==
    { m \in [TypeNames -> Paths \cup {NoPath}] :
        \A n \in TypeNames :
            LET D == { s.file_path : s \in { t \in index : t.kind = "Class"
                                                          /\ t.name = n } }
            IN  IF D = {} THEN m[n] = NoPath ELSE m[n] \in D }

\* the Class symbols a file declares under a name (`find` returns the first)
find_class_symbol_in_file(index, class_name, file_path) ==
    { s \in index : /\ s.file_path = file_path
                    /\ s.kind = "Class"
                    /\ s.name = class_name }

find_class_symbol(index, class_map, class_name) ==
    IF class_map[class_name] # NoPath
    THEN find_class_symbol_in_file(index, class_name, class_map[class_name])
    ELSE {}

\* the names of parent_classes that are not visited, in order
RECURSIVE Unvisited(_, _)
Unvisited(ps, visited) ==
    IF ps = <<>> THEN <<>>
    ELSE IF Head(ps) \in visited THEN Unvisited(Tail(ps), visited)
    ELSE <<Head(ps)>> \o Unvisited(Tail(ps), visited)

\* lines 191-204: the Class symbols whose parent_classes name class_name
ChildrenOf(index, class_name) ==
    { [name |-> s.name, file |-> s.file_path] :
        s \in { t \in index : /\ t.kind = "Class"
                              /\ class_name \in Range(t.parent_classes) } }

ChInit ==
    /\ \E index \in TypeIndexes :
         ch \in [pc : {"start"}, index : {index}, class_map : ClassMapsOf(index),
                 class_name : TypeNames, error : {FALSE}, queue : {<<>>},
                 visited : {{}}, parents : {<<>>}, children : {{}}]
    /\ OthersIdle({"ch"})
    /\ EngineOff

\* lines 142-158: the target must be in the class map and declared there
ChStart ==
    /\ ch.pc = "start"
    /\ ch' = IF \/ find_class_symbol(ch.index, ch.class_map, ch.class_name) = {}
                \/ ch.class_map[ch.class_name] = NoPath
             THEN [ch EXCEPT !.pc = "done", !.error = TRUE]
             ELSE [ch EXCEPT !.pc = "up", !.queue = <<ch.class_name>>]
    /\ UNCHANGED chFrame

\* lines 160-188: one iteration of `while let Some(current_name)`
ChUp ==
    /\ ch.pc = "up"
    /\ ch.queue # <<>>
    /\ LET current_name == Head(ch.queue)
           current_file == ch.class_map[current_name]
           syms == IF current_file = NoPath THEN {}
                   ELSE find_class_symbol_in_file(ch.index, current_name,
                                                  current_file)
       IN  IF current_name \in ch.visited
           THEN ch' = [ch EXCEPT !.queue = Tail(@)]
           ELSE IF syms = {}
           THEN ch' = [ch EXCEPT !.queue = Tail(@),
                                 !.visited = @ \cup {current_name}]
           ELSE \E current_sym \in syms :
                   ch' = [ch EXCEPT
                            !.queue = Tail(@) \o
                                Unvisited(current_sym.parent_classes,
                                          ch.visited \cup {current_name}),
                            !.visited = @ \cup {current_name},
                            !.parents =
                                IF current_name # ch.class_name
                                THEN Append(@, [name |-> current_name,
                                                file |-> current_file])
                                ELSE @]
    /\ UNCHANGED chFrame

\* lines 190-211: the queue is empty; the children in one pass over the index
ChDown ==
    /\ ch.pc = "up"
    /\ ch.queue = <<>>
    /\ ch' = [ch EXCEPT !.pc = "done",
                        !.children = ChildrenOf(ch.index, ch.class_name)]
    /\ UNCHANGED chFrame

\* lines 145-149 and 206-211: the returned document
ChResult ==
    IF ch.error THEN [error |-> ch.class_name]
    ELSE [class |-> ch.class_name, file |-> ch.class_map[ch.class_name],
          parents |-> ch.parents, children |-> ch.children]

ChNext == ChStart \/ ChUp \/ ChDown

\* get_class_hierarchy runs on the calling thread and is not suspended for ever
SpecCH == ChInit /\ [][ChNext]_vars /\ WF_vars(ChNext)

NamesOf(q) == { q[i].name : i \in 1..Len(q) }

\* C12: for indexed type-kind symbols A and B where B's parent_classes contains
\* A's name, the hierarchy of B lists A among its parents and the hierarchy of
\* A lists B among its children.
C12_HierarchySymmetry ==
    ch.pc = "done" =>
        \A A, B \in ch.index :
            (/\ A.kind \in TypeKinds /\ B.kind \in TypeKinds
             /\ A.name # B.name
             /\ A.name \in Range(B.parent_classes)) =>
                /\ B.name = ch.class_name =>
                      ~ ch.error /\ A.name \in NamesOf(ch.parents)
                /\ A.name = ch.class_name =>
                      ~ ch.error /\ B.name \in { c.name : c \in ch.children }

\* the names reachable from the names in S by following parent_classes of the
\* indexed types, S included
RECURSIVE ParentClosure(_, _)
ParentClosure(index, S) ==
    LET T == S \cup UNION { Range(s.parent_classes) :
                              s \in { t \in index : t.name \in S } }
    IN  IF T = S THEN S ELSE ParentClosure(index, T)

\* the transitive ancestors of n: reachable in one or more steps
Ancestors(index, n) ==
    ParentClosure(index, UNION { Range(s.parent_classes) :
                                  s \in { t \in index : t.name = n } })

\* C13: get_class_hierarchy(C) terminates, also when the inheritance relation
\* has a cycle through C, and its parents are the transitive ancestors of C,
\* each once, without C.
C13_ParentsAreAllAncestors ==
    /\ <>(ch.pc = "done")
    /\ []((ch.pc = "done" /\ ~ ch.error) =>
            /\ NamesOf(ch.parents) = Ancestors(ch.index, ch.class_name)
                                        \ {ch.class_name}
            /\ Len(ch.parents) = Cardinality(NamesOf(ch.parents)))

\* a not-found payload is a document with the key "error"
IsNotFound(doc) == "error" \in DOMAIN doc

\* C14: a call-graph query or a hierarchy query for a name that no indexed
\* symbol declares returns a not-found payload, and get_class_hierarchy returns
\* the error-shaped result exactly when the name is absent from the class map.
C14_AbsentNamesAreNotFound ==
    /\ (cg.pc = "done" /\ cg.entry # "" /\ cg.entry \notin cg.functions) =>
            IsNotFound(CgResult)
    /\ ch.pc = "done" =>
            /\ (\A s \in ch.index : s.name # ch.class_name) => IsNotFound(ChResult)
            /\ IsNotFound(ChResult) <=> ch.class_map[ch.class_name] = NoPath

\* C15: with no cache file, or one cut short by a crash inside save, or one
\* that does not deserialize, load returns None and attach starts from an
\* empty index; whatever load returns is what a completed save wrote.
C15_UnreadableCacheIsNoCache ==
    /\ rt.pc = "loaded" =>
          /\ (rt.crashed \/ ~ rt.file.exists) => ~ rt.loaded.some
          /\ rt.loaded.some => rt.loaded.cache = rt.cache
    /\ (CallerIdle /\ last.op = "attach" /\ ~ load_cache(disk).some) =>
          /\ last.result = "Ok"
          /\ query_engine = [loaded |-> TRUE, cache |-> EmptyCache]

\* a scan of an attached engine has returned Ok and no file changed since
ScanCompleted ==
    /\ CallerIdle /\ last.op = "scan" /\ last.result = "Ok"
    /\ last.attached /\ ~ touched

\* C16: once a full scan has completed the class map has no orphan entry:
\* every name maps to an indexed file that declares a type of that name.
C16_ScanPurgesOrphans ==
    ScanCompleted =>
        \A n \in ClassNames :
            LET p == query_engine.cache.class_map[n]
            IN  p # NoPath =>
                  /\ query_engine.cache.index[p].present
                  /\ DeclaresType(query_engine.cache.index[p].symbols, n)

\* C17: once a scan has completed the index holds no FileIndex of a file that
\* no longer exists under root.
C17_ScanDropsDeletedFiles ==
    ScanCompleted =>
        \A p \in Paths :
            query_engine.cache.index[p].present => files[p].exists


----------------------------------------------------------------------------
(* SpecRC: RuleScanner::new, one step per rule of the rule set.  A query   *)
(* or a pattern is absent, one that compiles, or one that does not.        *)

None == "None"

RuleLanguages == {"java", "Java", "php"}

Rules == [language : RuleLanguages,
          query : {None, "query", "bad query"},
          pattern : {None, "regex", "bad regex"}]

\* str::to_lowercase on the language names
to_lowercase(l) == IF l = "Java" THEN "java" ELSE l

\* the languages with a registered grammar
Grammars == {"python", "javascript", "typescript", "rust", "go", "java", "c",
             "cpp", "json", "html"}

\* get_language_for_rule: Some(grammar) or None
get_language_for_rule(language) ==
    IF to_lowercase(language) \in Grammars THEN to_lowercase(language) ELSE None

\* Query::new(&lang, query_str).is_ok()
QueryCompiles(q) == q = "query"

\* Regex::new(pattern).is_ok()
RegexCompiles(r) == r = "regex"

\* lines 27-59: what one rule adds to compiled_rules
CompileRule(i, rule) ==
    IF rule.query # None
    THEN LET lang == get_language_for_rule(rule.language)
         IN  IF lang # None /\ QueryCompiles(rule.query)
             THEN <<[rule |-> i, matcher |-> "TreeSitter", source |-> rule.query,
                     language |-> lang]>>
             ELSE <<>>
    ELSE IF rule.pattern # None /\ RegexCompiles(rule.pattern)
    THEN <<[rule |-> i, matcher |-> "Regex", source |-> rule.pattern,
            language |-> None]>>
    ELSE <<>>

RcInit ==
    /\ rc \in [pc : {"loop"}, rules : SeqsUpTo(Rules, MaxRules), i : {1},
               compiled_rules : {<<>>}]
    /\ OthersIdle({"rc"})
    /\ EngineOff

\* `for rule in rules`
RcRule ==
    /\ rc.pc = "loop"
    /\ rc.i <= Len(rc.rules)
    /\ rc' = [rc EXCEPT !.i = @ + 1,
                        !.compiled_rules = @ \o CompileRule(rc.i, rc.rules[rc.i])]
    /\ UNCHANGED rcFrame

\* `Self { compiled_rules }`
RcReturn ==
    /\ rc.pc = "loop"
    /\ rc.i > Len(rc.rules)
    /\ rc' = [rc EXCEPT !.pc = "done"]
    /\ UNCHANGED rcFrame

RcNext == RcRule \/ RcReturn

SpecRC == RcInit /\ [][RcNext]_vars

\* the compiled rules of rule i
MatchersOf(i) ==
    { k \in 1..Len(rc.compiled_rules) : rc.compiled_rules[k].rule = i }

\* C18: each rule compiles to exactly one matcher: a structural-query matcher
\* when it declares a query and its language has a grammar, otherwise a
\* textual matcher built from its pattern.  (Stated for the rules whose query
\* or pattern, as the priority selects it, compiles.)
C18_OneMatcherByPriority ==
    rc.pc = "done" =>
        \A i \in 1..Len(rc.rules) :
            LET rule == rc.rules[i]
                structural == /\ rule.query # None
                              /\ get_language_for_rule(rule.language) # None
            IN  /\ (structural /\ QueryCompiles(rule.query)) =>
                      \E k \in MatchersOf(i) :
                          /\ MatchersOf(i) = {k}
                          /\ rc.compiled_rules[k].matcher = "TreeSitter"
                          /\ rc.compiled_rules[k].source = rule.query
                /\ (~ structural /\ RegexCompiles(rule.pattern)) =>
                      \E k \in MatchersOf(i) :
                          /\ MatchersOf(i) = {k}
                          /\ rc.compiled_rules[k].matcher = "Regex"
                          /\ rc.compiled_rules[k].source = rule.pattern


----------------------------------------------------------------------------
(* SpecLD: load_rules_from_dir, one step per entry of the walk.  A rule is *)
(* named by the position of its document in the walk and its position in   *)
(* the document.                                                           *)

\* a YAML text is a RuleSet of two rules, a single Rule or neither; a file
\* that is not valid UTF-8 cannot be read to a string
DocContents == {"RuleSet", "Rule", "garbage", "not UTF-8"}

WalkEntries ==
    {[type |-> "error"], [type |-> "dir"]} \cup
    [type : {"file"}, extension : {"yaml", "yml", "txt"}, content : DocContents]

IsRuleFile(e) == e.type = "file" /\ e.extension \in {"yaml", "yml"}

\* fs::read_to_string(path).is_ok()
Readable(e) == e.content # "not UTF-8"

\* lines 20-26: the rules of a document, RuleSet first; <<>> when neither parses
RulesOf(i, e) ==
    IF e.content = "RuleSet" THEN << <<i, 1>>, <<i, 2>> >>
    ELSE IF e.content = "Rule" THEN << <<i, 1>> >>
    ELSE <<>>

LdInit ==
    /\ ld \in [pc : {"walk"}, entries : SeqsUpTo(WalkEntries, MaxEntries), i : {1},
               rules : {<<>>}, result : {"-"}]
    /\ OthersIdle({"ld"})
    /\ EngineOff

\* lines 10-29: one entry of `for entry in WalkDir::new(path)`; `?` returns
\* the error of the walk or of the read
LdEntry ==
    /\ ld.pc = "walk"
    /\ ld.i <= Len(ld.entries)
    /\ LET e == ld.entries[ld.i]
       IN  ld' = IF e.type = "error"
                 THEN [ld EXCEPT !.pc = "done", !.result = "Err", !.rules = <<>>]
                 ELSE IF ~ IsRuleFile(e)
                 THEN [ld EXCEPT !.i = @ + 1]
                 ELSE IF ~ Readable(e)
                 THEN [ld EXCEPT !.pc = "done", !.result = "Err", !.rules = <<>>]
                 ELSE [ld EXCEPT !.i = @ + 1, !.rules = @ \o RulesOf(ld.i, e)]
    /\ UNCHANGED ldFrame

\* line 32: Ok(rules)
LdReturn ==
    /\ ld.pc = "walk"
    /\ ld.i > Len(ld.entries)
    /\ ld' = [ld EXCEPT !.pc = "done", !.result = "Ok"]
    /\ UNCHANGED ldFrame

LdNext == LdEntry \/ LdReturn

SpecLD == LdInit /\ [][LdNext]_vars

\* the rules of the loadable documents among the first n entries, in order
RECURSIVE LoadableRules(_, _)
LoadableRules(entries, n) ==
    IF n = 0 THEN <<>>
    ELSE LoadableRules(entries, n - 1) \o
         (IF IsRuleFile(entries[n]) /\ Readable(entries[n])
          THEN RulesOf(n, entries[n]) ELSE <<>>)

\* C19: loading a directory tree whose walk succeeds returns Ok with the rules
\* of every loadable document, whatever documents in it cannot be loaded.
C19_UnloadableDocumentsAreSkipped ==
    (/\ ld.pc = "done"
     /\ \A k \in 1..Len(ld.entries) : ld.entries[k].type # "error") =>
        /\ ld.result = "Ok"
        /\ ld.rules = LoadableRules(ld.entries, Len(ld.entries))


----------------------------------------------------------------------------
(* SpecRP: QueryEngine::generate_report, one step per Symbol of the index, *)
(* in the order the maps yield them.  Two Symbols of one name on one line  *)
(* of a file (two calls of a function, say) differ by their code.          *)

ReportSymbols == [file_path : Paths, name : {"A", "m"}, start_line : Lines,
                  code : {"m()", "m(1)"}]

ReportIndexes == { S \in SUBSET ReportSymbols : Cardinality(S) <= MaxNodes }

\* symbol.rs line 105: format!("{}:{}:{}", file_path, name, start_line)
NodeId(sym) == <<sym.file_path, ":", sym.name, ":", sym.start_line>>

\* Symbol::to_dict: the report node
to_dict(sym) ==
    [id |-> NodeId(sym), name |-> sym.name, file |-> sym.file_path,
     startLine |-> sym.start_line, line |-> sym.start_line, code |-> sym.code]

\* serde_json::Map::insert: the value under an id replaces the one there
MapInsert(nodes, id, node) ==
    { e \in nodes : e.id # id } \cup {[id |-> id, node |-> node]}

\* get_statistics: total_nodes, the sum of symbols.len() over the index
total_nodes(index) == Cardinality(index)

RpInit ==
    /\ \E index \in ReportIndexes :
         rp = [pc |-> "loop", index |-> index, todo |-> index, nodes |-> {},
               node_count |-> 0]
    /\ OthersIdle({"rp"})
    /\ EngineOff

\* lines 251-258: the next Symbol
RpSymbol(sym) ==
    /\ rp.pc = "loop"
    /\ sym \in rp.todo
    /\ rp' = [rp EXCEPT !.todo = @ \ {sym},
                        !.nodes = MapInsert(@, to_dict(sym).id, to_dict(sym))]
    /\ UNCHANGED rpFrame

\* lines 260-268: the report document; node_count is nodes.len()
RpReturn ==
    /\ rp.pc = "loop"
    /\ rp.todo = {}
    /\ rp' = [rp EXCEPT !.pc = "done", !.node_count = Cardinality(rp.nodes)]
    /\ UNCHANGED rpFrame

RpNext == (\E sym \in ReportSymbols : RpSymbol(sym)) \/ RpReturn

SpecRP == RpInit /\ [][RpNext]_vars

\* C20: the report has, for every Symbol of the index, an entry under the
\* Symbol's id holding its report node, and node_count is the number of
\* Symbols of the index, the total_nodes of the statistics.
C20_ReportHoldsEverySymbol ==
    rp.pc = "done" =>
        /\ \A sym \in rp.index :
              [id |-> NodeId(sym), node |-> to_dict(sym)] \in rp.nodes
        /\ rp.node_count = total_nodes(rp.index)



----------------------------------------------------------------------------
(* SpecSF: RuleScanner::scan_file for one compiled textual rule, one step  *)
(* per match that captures_iter yields.  A text is a sequence of           *)
(* characters, offsets count from 0, and the pattern is a literal text.    *)

Chars == {"a", "b", "\n"}

Texts == UNION { [1..n -> Chars] : n \in 0..MaxContent }

Patterns == UNION { [1..n -> Chars] : n \in 1..MaxPattern }

\* model.rs lines 22-28: the variants of Severity, in declaration order
Severity == <<"Critical", "High", "Medium", "Low", "Info">>

\* #[serde(rename_all = "lowercase")]: the names of the variants in documents
SeverityNames == <<"critical", "high", "medium", "low", "info">>

\* format!("{:?}", rule.severity): the derived Debug prints the variant
DebugSeverity(v) == Severity[v]

\* rule_matches_extension over the languages and extensions in use
rule_matches_extension(language, extension) ==
    CASE to_lowercase(language) = "python" -> extension = "py"
      [] to_lowercase(language) = "java" -> extension = "java"
      [] to_lowercase(language) \in {"all", "*"} -> TRUE
      [] OTHER -> to_lowercase(language) = extension

\* the pattern matches the content at offset i
MatchesAt(content, pattern, i) ==
    /\ i + Len(pattern) <= Len(content)
    /\ \A k \in 1..Len(pattern) : content[i + k] = pattern[k]

\* the offsets at or after pos where the pattern matches
MatchOffsets(content, pattern, pos) ==
    { i \in pos..Len(content) : MatchesAt(content, pattern, i) }

Min(S) == CHOOSE x \in S : \A y \in S : x <= y

\* content[..offset].matches('\n').count()
NewlinesBefore(content, offset) ==
    Cardinality({ k \in 1..offset : content[k] = "\n" })

\* create_finding, the fields that vary
create_finding(rule, line_start, line_end, detector) ==
    [line_start |-> line_start, line_end |-> line_end, detector |-> detector,
     severity |-> DebugSeverity(rule.severity)]

SfInit ==
    /\ \E content \in Texts, pattern \in Patterns, sev \in DOMAIN Severity,
          language \in {"python", "all"}, extension \in {"py", "java"} :
         sf = [pc |-> "rule", content |-> content, extension |-> extension,
               rule |-> [severity |-> sev, language |-> language,
                         pattern |-> pattern],
               pos |-> 0, findings |-> <<>>]
    /\ OthersIdle({"sf"})
    /\ EngineOff

\* lines 79-83: the rule is skipped on a file of another language
SfSkip ==
    /\ sf.pc = "rule"
    /\ ~ rule_matches_extension(sf.rule.language, sf.extension)
    /\ sf' = [sf EXCEPT !.pc = "done"]
    /\ UNCHANGED sfFrame

\* lines 85-87: the Regex matcher starts at the beginning of the content
SfRegex ==
    /\ sf.pc = "rule"
    /\ rule_matches_extension(sf.rule.language, sf.extension)
    /\ sf' = [sf EXCEPT !.pc = "captures"]
    /\ UNCHANGED sfFrame

\* lines 87-104: the next match, leftmost after the end of the last one
SfMatch ==
    /\ sf.pc = "captures"
    /\ MatchOffsets(sf.content, sf.rule.pattern, sf.pos) # {}
    /\ LET start_pos == Min(MatchOffsets(sf.content, sf.rule.pattern, sf.pos))
           end_pos == start_pos + Len(sf.rule.pattern)
           line_start == NewlinesBefore(sf.content, start_pos) + 1
           line_end == NewlinesBefore(sf.content, end_pos) + 1
       IN  sf' = [sf EXCEPT !.pos = end_pos,
                            !.findings = Append(@, create_finding(sf.rule,
                                line_start, line_end, "RegexRule"))]
    /\ UNCHANGED sfFrame

\* line 138: no match is left
SfReturn ==
    /\ sf.pc = "captures"
    /\ MatchOffsets(sf.content, sf.rule.pattern, sf.pos) = {}
    /\ sf' = [sf EXCEPT !.pc = "done"]
    /\ UNCHANGED sfFrame

SfNext == SfSkip \/ SfRegex \/ SfMatch \/ SfReturn

SpecSF == SfInit /\ [][SfNext]_vars

\* the k-th non-overlapping match of the pattern in the content, as the
\* offset where it starts; the content has Len(content) + 1 offsets
RECURSIVE NthMatch(_, _, _)
NthMatch(content, pattern, k) ==
    LET from == IF k = 1 THEN 0
                ELSE NthMatch(content, pattern, k - 1) + Len(pattern)
    IN  IF from > Len(content) \/ MatchOffsets(content, pattern, from) = {}
        THEN Len(content) + 1
        ELSE Min(MatchOffsets(content, pattern, from))

MatchCount(content, pattern) ==
    Cardinality({ k \in 1..(Len(content) + 1) :
                    NthMatch(content, pattern, k) <= Len(content) })

\* the findings of the textual rule have the lines of its matches
FindingsFollowMatches ==
    /\ Len(sf.findings) = MatchCount(sf.content, sf.rule.pattern)
    /\ \A k \in 1..Len(sf.findings) :
          LET start == NthMatch(sf.content, sf.rule.pattern, k)
              f == sf.findings[k]
          IN  /\ f.line_start = NewlinesBefore(sf.content, start) + 1
              /\ f.line_end = NewlinesBefore(sf.content,
                                  start + Len(sf.rule.pattern)) + 1
              /\ 1 <= f.line_start /\ f.line_start <= f.line_end

\* C21: a textual rule evaluated on a file of its language yields one Finding
\* per non-overlapping match, each with the rule's severity as documents name
\* it ("high" for High) and with the lines of the match's start and end,
\* 1 <= line_start <= line_end.
C21_TextualRuleFindings ==
    (sf.pc = "done" /\ rule_matches_extension(sf.rule.language, sf.extension)) =>
        /\ FindingsFollowMatches
        /\ \A k \in 1..Len(sf.findings) :
              sf.findings[k].severity = SeverityNames[sf.rule.severity]

\* the part of C21 about the matches and their lines
C21_MatchesAndLines ==
    (sf.pc = "done" /\ rule_matches_extension(sf.rule.language, sf.extension)) =>
        FindingsFollowMatches



----------------------------------------------------------------------------
(* SpecLK: the operations of ASTEngine run by several threads, reduced to  *)
(* what they do with the three mutexes.  An operation is the sequence of   *)
(* its lock steps; a guard declared with `let` is held until the operation *)
(* returns, a guard that is a temporary until its statement ends.          *)

Locks == {"cache_manager", "parser", "query_engine"}

Ops == {"use_repository", "update_file", "remove_file_from_cache",
        "save_cache", "generate_report", "get_statistics",
        "get_analysis_report"}

\* the lock steps of an operation: lock and unlock a mutex, a step after
\* which the operation may return (`?` on an error, an early return), and
\* parse_file, which returns symbols or an error, or panics
Steps(op) ==
    CASE op = "use_repository" ->
           << <<"lock", "cache_manager">>, <<"lock", "query_engine">> >>
      [] op = "update_file" ->
           << <<"lock", "cache_manager">>, <<"lock", "query_engine">>,
              <<"may_return", "is_file_changed">>,
              <<"unlock", "query_engine">>,
              <<"may_return", "needs_update">>,
              <<"may_return", "read_to_string">>,
              <<"lock", "parser">>, <<"parse", "parse_file">>,
              <<"unlock", "parser">>,
              <<"may_return", "get_file_mtime">>,
              <<"lock", "query_engine">> >>
      [] op = "remove_file_from_cache" ->
           << <<"lock", "query_engine">> >>
      [] op = "save_cache" ->
           << <<"lock", "cache_manager">>, <<"lock", "query_engine">>,
              <<"may_return", "save_cache">>, <<"unlock", "query_engine">> >>
      [] op = "generate_report" ->
           << <<"lock", "query_engine">>, <<"may_return", "No cache loaded">>,
              <<"lock", "cache_manager">>,
              <<"may_return", "save_analysis_report">> >>
      [] op = "get_statistics" ->
           << <<"lock", "query_engine">> >>
      [] op = "get_analysis_report" ->
           << <<"lock", "cache_manager">> >>

\* the step thread t is at
StepOf(t) == Steps(lk.op[t])[lk.pc[t]]

AtStep(t, kind) ==
    /\ lk.op[t] \in Ops
    /\ lk.pc[t] <= Len(Steps(lk.op[t]))
    /\ StepOf(t)[1] = kind

\* the guards of thread t are dropped
Released(t, holder) == [l \in Locks |-> IF holder[l] = t THEN Free ELSE holder[l]]

\* a thread that unwinds poisons the mutexes whose guards it holds
Poisoned(t) == [l \in Locks |-> lk.poisoned[l] \/ lk.holder[l] = t]

LkInit ==
    /\ lk = [pc |-> [t \in Threads |-> 1], op |-> [t \in Threads |-> "idle"],
             holder |-> [l \in Locks |-> Free],
             poisoned |-> [l \in Locks |-> FALSE]]
    /\ OthersIdle({"lk"})
    /\ EngineOff

\* a thread calls an operation of the engine
LkCall(t, op) ==
    /\ lk.op[t] = "idle"
    /\ lk' = [lk EXCEPT !.op[t] = op, !.pc[t] = 1]
    /\ UNCHANGED lkFrame

\* mutex.lock().unwrap() on a mutex that is free and not poisoned
LkLock(t) ==
    /\ AtStep(t, "lock")
    /\ lk.holder[StepOf(t)[2]] = Free
    /\ ~ lk.poisoned[StepOf(t)[2]]
    /\ lk' = [lk EXCEPT !.holder[StepOf(t)[2]] = t, !.pc[t] = @ + 1]
    /\ UNCHANGED lkFrame

\* mutex.lock().unwrap() on a poisoned mutex panics
LkLockPoisoned(t) ==
    /\ AtStep(t, "lock")
    /\ lk.holder[StepOf(t)[2]] = Free
    /\ lk.poisoned[StepOf(t)[2]]
    /\ lk' = [lk EXCEPT !.op[t] = "panicked", !.poisoned = Poisoned(t),
                        !.holder = Released(t, lk.holder)]
    /\ UNCHANGED lkFrame

\* the guard of a statement is dropped
LkUnlock(t) ==
    /\ AtStep(t, "unlock")
    /\ lk' = [lk EXCEPT !.holder[StepOf(t)[2]] = Free, !.pc[t] = @ + 1]
    /\ UNCHANGED lkFrame

\* a step that may return goes on
LkGoOn(t) ==
    /\ AtStep(t, "may_return") \/ AtStep(t, "parse")
    /\ lk' = [lk EXCEPT !.pc[t] = @ + 1]
    /\ UNCHANGED lkFrame

\* the operation returns, early or at its end, and its guards are dropped
LkReturn(t) ==
    /\ lk.op[t] \in Ops
    /\ \/ lk.pc[t] > Len(Steps(lk.op[t]))
       \/ AtStep(t, "may_return")
       \/ AtStep(t, "parse")
    /\ lk' = [lk EXCEPT !.op[t] = "idle", !.pc[t] = 1,
                        !.holder = Released(t, lk.holder)]
    /\ UNCHANGED lkFrame

\* parse_file panics (parser.rs line 122, on a wide character)
LkPanic(t) ==
    /\ AtStep(t, "parse")
    /\ lk' = [lk EXCEPT !.op[t] = "panicked", !.poisoned = Poisoned(t),
                        !.holder = Released(t, lk.holder)]
    /\ UNCHANGED lkFrame

LkNext ==
    \E t \in Threads :
        \/ \E op \in Ops : LkCall(t, op)
        \/ LkLock(t)
        \/ LkLockPoisoned(t)
        \/ LkUnlock(t)
        \/ LkGoOn(t)
        \/ LkReturn(t)
        \/ LkPanic(t)

SpecLK == LkInit /\ [][LkNext]_vars

\* thread t waits for a mutex that thread u holds
WaitsFor(t, u) ==
    /\ AtStep(t, "lock")
    /\ lk.holder[StepOf(t)[2]] = u

\* C22: no two threads running engine operations wait for each other on the
\* engine's mutexes.
C22_NoTwoThreadsWaitForEachOther ==
    \A t, u \in Threads : ~ (t # u /\ WaitsFor(t, u) /\ WaitsFor(u, t))

\* the lock orders of the operations other than generate_report agree
C22_OnlyGenerateReportInverts ==
    \A t, u \in Threads :
        (t # u /\ WaitsFor(t, u) /\ WaitsFor(u, t)) =>
            "generate_report" \in {lk.op[t], lk.op[u]}



----------------------------------------------------------------------------
(* SpecRace: update_file while other processes write and delete the files  *)
(* at any moment, also between the steps of an update.  Time moves         *)
(* forward: a write gives the file a later mtime than it had, and a        *)
(* deleted file keeps its last mtime in `files` for that comparison.       *)

UpdatePositions == {"u_exists", "u_lock", "u_check", "u_read", "u_parse",
                    "u_mtime", "u_merge"}

WriteAnyTime(p, c, m) ==
    /\ Event
    /\ m > files[p].mtime
    /\ files' = [files EXCEPT ![p] = [exists |-> TRUE, mtime |-> m, content |-> c]]
    /\ touched' = TRUE
    /\ UNCHANGED <<disk, query_engine, cm_lock, parser_poisoned, pc, loc, scan,
                   last, seen, pureVars>>

DeleteAnyTime(p) ==
    /\ Event
    /\ files[p].exists
    /\ files' = [files EXCEPT ![p] = [NoFile EXCEPT !.mtime = files[p].mtime]]
    /\ touched' = TRUE
    /\ UNCHANGED <<disk, query_engine, cm_lock, parser_poisoned, pc, loc, scan,
                   last, seen, pureVars>>

RaceNext ==
    \/ \E p \in Paths, c \in Contents, m \in Mtimes : WriteAnyTime(p, c, m)
    \/ \E p \in Paths : DeleteAnyTime(p)
    \/ Attach
    \/ \E p \in Paths : UpdateBegin(p)
    \/ UExists(Caller)
    \/ ULock(Caller)
    \/ UCheck(Caller)
    \/ URead(Caller)
    \/ UParse(Caller)
    \/ UMtime(Caller)
    \/ UMerge(Caller)

SpecRace == Init /\ [][RaceNext]_vars

\* the FileIndex of p carries the mtime the file has now
IndexedAtCurrentMtime(p) ==
    /\ query_engine.loaded
    /\ query_engine.cache.index[p].present
    /\ files[p].exists
    /\ query_engine.cache.index[p].mtime = files[p].mtime

\* C23: when the content of a file never changes without its mtime, a
\* FileIndex that an update stored and whose mtime is the file's current
\* mtime holds the symbols of the file's current content, also when the file
\* was written while the update ran.
C23_CurrentMtimeMeansCurrentSymbols ==
    \A p \in Paths :
        IndexedAtCurrentMtime(p) =>
            /\ parse_file(p, files[p].content).status = "ok"
            /\ query_engine.cache.index[p].symbols =
                   parse_file(p, files[p].content).symbols

\* C24: a step of an update(path) call changes the file index, the class map
\* or the persisted cache only if it is the step by which the call returns
\* Ok: a call that returns an error has left all three as they were, a
\* FileIndex of path included.
C24_FailedUpdateChangesNothing ==
    [][(/\ pc[Caller] \in UpdatePositions
        /\ (query_engine' # query_engine \/ disk' # disk)) =>
           (/\ pc'[Caller] = "idle"
            /\ last'.op = "update"
            /\ last'.result = "Ok")]_vars

\* an update of an indexed file has returned an error and the FileIndex of
\* the file is there
C24_Witness ==
    /\ CallerIdle
    /\ last.op = "update"
    /\ last.result = "Err"
    /\ query_engine.loaded
    /\ query_engine.cache.index[last.path].present



----------------------------------------------------------------------------
(* SpecVS: visit_node of extract_java_symbols over a syntax tree, one step *)
(* on entering a node and one on leaving it.  (The Python and JavaScript   *)
(* visitors have the same shape with their own node kinds.)  A tree is the *)
(* sequence of its nodes in document order, each with its depth; the       *)
(* recursion is the sequence `open` of the nodes being visited.            *)

TypeNodes == {"class_declaration", "interface_declaration"}

\* the nodes a tree is made of: kind and the text of the `name` field.  The
\* grammar gives every type and method declaration node a name.
NodeLabels ==
    [kind : {"class_declaration"}, name : {"A", "B"}] \cup
    [kind : {"interface_declaration"}, name : {"A"}] \cup
    [kind : {"method_declaration"}, name : {"m", "n"}] \cup
    [kind : {"method_invocation"}, name : {"f"}] \cup
    [kind : {"block"}, name : {None}]

\* the trees of a parse with n nodes below the root `program`: each node is
\* a child of the node before it or of one of that node's ancestors
RECURSIVE TreesOf(_)
TreesOf(n) ==
    IF n = 0
    THEN {<<[kind |-> "program", name |-> None, depth |-> 0]>>}
    ELSE UNION { { Append(t, [kind |-> l.kind, name |-> l.name, depth |-> d]) :
                     l \in NodeLabels, d \in 1..(t[Len(t)].depth + 1) } :
                 t \in TreesOf(n - 1) }

\* the trees with up to max nodes below the root
SyntaxTrees(max) == UNION { TreesOf(n) : n \in 0..max }

Last(q) == q[Len(q)]

Front(q) == SubSeq(q, 1, Len(q) - 1)

\* Vec::last as an Option
LastOrNone(q) == IF q = <<>> THEN None ELSE Last(q)

\* Vec::pop: nothing happens on an empty Vec
Pop(q) == IF q = <<>> THEN q ELSE Front(q)

\* lines 114-117: class_stack.push(name) if the node has a name
PushClass(node, class_stack) ==
    IF node.kind \in TypeNodes /\ node.name # None
    THEN Append(class_stack, node.name) ELSE class_stack

\* lines 185-188: method_stack.push(name) if the node has a name
PushMethod(node, method_stack) ==
    IF node.kind = "method_declaration" /\ node.name # None
    THEN Append(method_stack, node.name) ELSE method_stack

\* a visitor that leaves the name of a type on its stack
PopClassNever(node, class_stack) == class_stack

\* lines 265-267
PopClass(node, class_stack) ==
    IF node.kind \in TypeNodes THEN Pop(class_stack) ELSE class_stack

\* lines 268-270
PopMethod(node, method_stack) ==
    IF node.kind = "method_declaration" THEN Pop(method_stack) ELSE method_stack

\* lines 113-252: the Symbol the node's match arm pushes, if any; k stands
\* for the position of the node in the text
SymbolOfNode(k, node, class_stack, method_stack) ==
    IF node.kind \in TypeNodes /\ node.name # None
    THEN <<[node |-> k, name |-> node.name,
            kind |-> IF node.kind = "class_declaration" THEN "Class"
                     ELSE "Interface",
            ownerClass |-> None, callerClass |-> None, callerMethod |-> None]>>
    ELSE IF node.kind = "method_declaration" /\ node.name # None
    THEN <<[node |-> k, name |-> node.name, kind |-> "Method",
            ownerClass |-> LastOrNone(class_stack),
            callerClass |-> None, callerMethod |-> None]>>
    ELSE IF node.kind = "method_invocation" /\ node.name # None
    THEN <<[node |-> k, name |-> node.name, kind |-> "MethodCall",
            ownerClass |-> None,
            callerClass |-> LastOrNone(class_stack),
            callerMethod |-> LastOrNone(method_stack)]>>
    ELSE <<>>

NoVisit == [node |-> 0, before |-> <<>>, after |-> <<>>]

VsInit ==
    /\ \E t \in SyntaxTrees(MaxTreeNodes) :
         vs = [pc |-> "walk", tree |-> t, i |-> 1, open |-> <<>>,
               saved |-> <<>>, class_stack |-> <<>>, method_stack |-> <<>>,
               symbols |-> <<>>, returned |-> NoVisit]
    /\ OthersIdle({"vs"})
    /\ EngineOff

\* visit_node is called on the next node: the root, or the next child of the
\* node being visited.  The match arm of the node's kind runs.
VsEnter ==
    /\ vs.pc = "walk"
    /\ vs.i <= Len(vs.tree)
    /\ \/ vs.open = <<>>
       \/ /\ vs.open # <<>>
          /\ vs.tree[vs.i].depth = vs.tree[Last(vs.open)].depth + 1
    /\ LET node == vs.tree[vs.i]
           cs == PushClass(node, vs.class_stack)
           ms == PushMethod(node, vs.method_stack)
       IN  vs' = [vs EXCEPT
                    !.saved = Append(@, <<vs.class_stack, vs.method_stack>>),
                    !.open = Append(@, vs.i),
                    !.i = @ + 1,
                    !.class_stack = cs,
                    !.method_stack = ms,
                    !.symbols = @ \o SymbolOfNode(vs.i, node, cs, ms)]
    /\ UNCHANGED vsFrame

\* lines 253-270: the children are visited; the pops run and the visit returns
VsLeave ==
    /\ vs.pc = "walk"
    /\ vs.open # <<>>
    /\ \/ vs.i > Len(vs.tree)
       \/ /\ vs.i <= Len(vs.tree)
          /\ vs.tree[vs.i].depth <= vs.tree[Last(vs.open)].depth
    /\ LET node == vs.tree[Last(vs.open)]
           cs == PopClass(node, vs.class_stack)
           ms == PopMethod(node, vs.method_stack)
       IN  vs' = [vs EXCEPT
                    !.open = Front(@),
                    !.saved = Front(@),
                    !.class_stack = cs,
                    !.method_stack = ms,
                    !.returned = [node |-> Last(vs.open),
                                  before |-> Last(vs.saved),
                                  after |-> <<cs, ms>>]]
    /\ UNCHANGED vsFrame

\* lines 272-281: the visit of the root has returned; Ok(symbols)
VsReturn ==
    /\ vs.pc = "walk"
    /\ vs.open = <<>>
    /\ vs.i > Len(vs.tree)
    /\ vs' = [vs EXCEPT !.pc = "done"]
    /\ UNCHANGED vsFrame

VsNext == VsEnter \/ VsLeave \/ VsReturn

SpecVS == VsInit /\ [][VsNext]_vars

\* the nodes that enclose node k of tree t
Enclosing(t, k) ==
    { j \in 1..(k - 1) :
        /\ t[j].depth < t[k].depth
        /\ \A h \in (j + 1)..k : t[h].depth > t[j].depth }

\* the name of the innermost node of the kinds that encloses node k, if any
InnermostName(t, k, kinds) ==
    LET E == { j \in Enclosing(t, k) : t[j].kind \in kinds /\ t[j].name # None }
    IN  IF E = {} THEN None
        ELSE t[CHOOSE j \in E : \A h \in E : h <= j].name

----------------------------------------------------------------------------
(* SpecMCP: McpState, the sidecar process and its listener task, the       *)
(* health check and up to NCalls call_tool invocations.  Time passes in    *)
(* ticks of TickSeconds; an id is the millisecond at which it is taken.    *)

MAX_CONCURRENT_REQUESTS == 3

TickSeconds == 30

\* start_health_check: state.check_timeout(300)
HealthTimeoutSeconds == 300

Calls == 1..NCalls

\* the tools the invocations call
Tools == {"search_files"}

\* get_tool_timeout, in seconds
get_tool_timeout(tool_name) ==
    CASE tool_name \in {"read_file", "list_files", "get_loaded_rules",
                        "search_symbol"} -> 10
      [] tool_name \in {"get_code_structure", "find_call_sites",
                        "get_class_hierarchy", "search_files"} -> 30
      [] tool_name \in {"get_knowledge_graph", "get_call_graph",
                        "get_analysis_report"} -> 60
      [] tool_name \in {"build_ast_index", "run_security_scan",
                        "verify_finding"} -> 180
      [] OTHER -> 60

\* a call_tool invocation: its position, its id, what its receiver rx holds
\* ("empty", a message, or "dropped" when its sender was dropped unsent) and
\* the ticks left of its timeout
NoCall == [pc |-> "idle", id |-> 0, rx |-> "empty", left |-> 0]


InFlight(c) == mcp.call[c].pc = "wait"

HoldsPermit(c) == mcp.call[c].pc = "wait"

\* HashMap::insert: the entry under the id is replaced
Insert(map, id, c) == { e \in map : e.id # id } \cup {[id |-> id, call |-> c]}

\* HashMap::remove
Remove(map, id) == { e \in map : e.id # id }

\* the invocations whose entry the map holds under the id
Owners(map, id) == { e.call : e \in { x \in map : x.id = id } }

\* tx.send(message): the receiver gets it unless it was dropped; its timer
\* no longer matters, Timeout::poll polls the receiver first
Send(call, owners, message) ==
    [c \in Calls |-> IF c \in owners /\ call[c].pc = "wait"
                        /\ call[c].rx = "empty"
                     THEN [call[c] EXCEPT !.rx = message, !.left = 0]
                     ELSE call[c]]

\* a Sender that is dropped unsent closes the channel
Drop(call, owners) == Send(call, owners, "dropped")

\* RequestInfo entries carry their age in ticks (started_at)
ActiveInsert(map, id, c) ==
    { e \in map : e.id # id } \cup {[id |-> id, call |-> c, age |-> 0]}

TimeoutTicks(tool_name) == get_tool_timeout(tool_name) \div TickSeconds

\* call_tool has returned: its locals are gone
Returned == [NoCall EXCEPT !.pc = "done"]

AcquirableAlways(permits) == TRUE

\* Semaphore::acquire completes when a permit is available
Acquirable(permits) == permits > 0

McpInit ==
    /\ mcp = [child |-> None, spawned |-> 0,
              permits |-> MAX_CONCURRENT_REQUESTS,
              pending |-> {}, active |-> {}, ms |-> 0, inbox |-> {},
              call |-> [c \in Calls |-> NoCall]]
    /\ OthersIdle({"mcp"})
    /\ EngineOff

\* start_mcp_server: a sidecar is spawned and recorded unless a child is
\* recorded; a failed spawn records nothing
StartServer(spawn_ok) ==
    /\ mcp' = IF mcp.child = None /\ spawn_ok
              THEN [mcp EXCEPT !.child = "Running", !.spawned = @ + 1]
              ELSE mcp
    /\ UNCHANGED mcpFrame

\* the sidecar process terminates; the listener task emits "mcp-terminated"
\* and breaks out of its loop.  The requests the process held are lost.
SidecarExits ==
    /\ mcp.child = "Running"
    /\ mcp' = [mcp EXCEPT !.child = "Dead", !.inbox = {}]
    /\ UNCHANGED mcpFrame

\* handle_python_stdout on a "2.0" line with the id: the sidecar answers one
\* of the requests it holds under the id, or a request it never got; the
\* sender under the id gets the answer, Ok(text) or Err(message) as the line
\* says
Answer(id) ==
    /\ mcp.child = "Running"
    /\ \E req \in { r \in mcp.inbox : r.id = id } \cup {[id |-> id, call |-> 0]} :
         /\ req.call = 0 => ~ \E r \in mcp.inbox : r.id = id
         /\ mcp' = [mcp EXCEPT
                !.inbox = @ \ {req},
                !.pending = Remove(@, id),
                !.active = Remove(@, id),
                !.call = Send(@, Owners(mcp.pending, id), "Answer")]
    /\ UNCHANGED mcpFrame

\* start_health_check, one round: check_timeout(300) removes the active
\* entries older than the limit, their senders get Err("请求超时")
HealthCheck ==
    /\ LET timeout_ids == { e.id : e \in { x \in mcp.active :
                               x.age * TickSeconds > HealthTimeoutSeconds } }
           owners == UNION { Owners(mcp.pending, id) : id \in timeout_ids }
       IN  mcp' = IF mcp.child = None THEN mcp
                  ELSE [mcp EXCEPT
                         !.active = { e \in @ : e.id \notin timeout_ids },
                         !.pending = { e \in @ : e.id \notin timeout_ids },
                         !.call = Send(@, owners, "HealthTimeout")]
    /\ UNCHANGED mcpFrame

\* a tick of the clock: the timers of the waiting invocations and the ages
\* of the active entries advance; a timer that has expired fires first
Tick ==
    /\ \E c \in Calls : mcp.call[c].pc = "wait" /\ mcp.call[c].rx = "empty"
    /\ \A c \in Calls : mcp.call[c].pc = "wait" /\ mcp.call[c].rx = "empty"
                           => mcp.call[c].left > 0
    /\ mcp' = [mcp EXCEPT
            !.active = { [e EXCEPT !.age = @ + 1] : e \in @ },
            !.call = [c \in Calls |->
                        IF mcp.call[c].pc = "wait" /\ mcp.call[c].rx = "empty"
                        THEN [mcp.call[c] EXCEPT !.left = @ - 1]
                        ELSE mcp.call[c]]]
    /\ UNCHANGED mcpFrame

\* call_tool is invoked (invocations are numbered in the order they start)
CallBegin(c) ==
    /\ mcp.call[c].pc = "idle"
    /\ \A b \in 1..(c - 1) : mcp.call[b].pc # "idle"
    /\ mcp' = [mcp EXCEPT !.call[c].pc = "acquire"]
    /\ UNCHANGED mcpFrame

\* the id is that of an entry or of a request at the sidecar; an id that
\* repeats one no longer in use is as good as a new one
InUse(id) == \E e \in mcp.pending \cup mcp.active \cup mcp.inbox : e.id = id

\* call_tool 231-237: the write failed; both entries under the id are
\* removed (their senders dropped) and the error is returned
WriteFailed(m, c, id) ==
    [m EXCEPT !.pending = Remove(@, id),
              !.active = Remove(@, id),
              !.call = [Drop(@, Owners(m.pending, id) \ {c}) EXCEPT ![c] = Returned]]

\* call_tool 217-239: the request is written to the recorded child, if any;
\* the write may fail, and a write to a terminated process reaches nobody.
\* The timer then runs for the timeout of the invocation's tool.
Write(m, c, id, tool_name, write_ok) ==
    IF m.child = None \/ ~ write_ok THEN WriteFailed(m, c, id)
    ELSE [m EXCEPT
            !.permits = @ - 1,
            !.inbox = IF m.child = "Running"
                      THEN @ \cup {[id |-> id, call |-> c]} ELSE @,
            !.call[c] = [pc |-> "wait", id |-> id, rx |-> "empty",
                         left |-> TimeoutTicks(tool_name)]]

\* call_tool 183-239, from the permit to the timer, which the task runs
\* without awaiting: the id is the current millisecond (the one of the
\* previous id, or a later one); active.insert(id, RequestInfo);
\* pending.insert(id, tx), where a sender already there is dropped; the write
CallSend(c, later, tool_name, write_ok) ==
    /\ mcp.call[c].pc = "acquire"
    /\ Acquirable(mcp.permits)
    /\ later = 0 => InUse(mcp.ms)
    /\ LET id == mcp.ms + later
           registered == [mcp EXCEPT
                !.ms = id,
                !.active = ActiveInsert(@, id, c),
                !.pending = Insert(@, id, c),
                !.call = Drop(@, Owners(mcp.pending, id) \ {c})]
       IN  mcp' = Write(registered, c, id, tool_name, write_ok)
    /\ UNCHANGED mcpFrame

\* call_tool 241-244: Ok(Ok(result)), the message is returned
CallResult(c) ==
    /\ mcp.call[c].pc = "wait"
    /\ mcp.call[c].rx \in {"Answer", "HealthTimeout"}
    /\ mcp' = [mcp EXCEPT !.permits = @ + 1,
                          !.call[c] = Returned]
    /\ UNCHANGED mcpFrame

\* call_tool 245-249: Ok(Err(_)), the sender was dropped; only the active
\* entry under the id is removed
CallClosed(c) ==
    /\ mcp.call[c].pc = "wait"
    /\ mcp.call[c].rx = "dropped"
    /\ mcp' = [mcp EXCEPT !.active = Remove(@, mcp.call[c].id),
                          !.permits = @ + 1,
                          !.call[c] = Returned]
    /\ UNCHANGED mcpFrame

CallTimeoutNever(c) ==
    /\ mcp.call[c].pc = "wait"
    /\ mcp.call[c].rx = "empty"
    /\ mcp.call[c].left < 0
    /\ mcp' = [mcp EXCEPT !.permits = @ + 1, !.call[c] = Returned]
    /\ UNCHANGED mcpFrame

\* call_tool 250-256: Err(_), the timer fired and the receiver holds
\* nothing; both entries under the id are removed
CallTimeout(c) ==
    /\ mcp.call[c].pc = "wait"
    /\ mcp.call[c].rx = "empty"
    /\ mcp.call[c].left = 0
    /\ LET id == mcp.call[c].id
           dropped == Owners(mcp.pending, id) \ {c}
       IN  mcp' = [mcp EXCEPT
                !.pending = Remove(@, id),
                !.active = Remove(@, id),
                !.permits = @ + 1,
                !.call = [Drop(@, dropped) EXCEPT ![c] = Returned]]
    /\ UNCHANGED mcpFrame

CallStep ==
    \E c \in Calls :
        \/ \E later \in {0, 1}, tool_name \in Tools, write_ok \in BOOLEAN :
               CallSend(c, later, tool_name, write_ok)
        \/ CallResult(c)
        \/ CallClosed(c)
        \/ CallTimeout(c)

McpNext ==
    \/ \E spawn_ok \in BOOLEAN : StartServer(spawn_ok)
    \/ SidecarExits
    \/ \E id \in 0..(NCalls + 1) : Answer(id)
    \/ HealthCheck
    \/ Tick
    \/ \E c \in Calls : CallBegin(c)
    \/ CallStep

SpecMCP == McpInit /\ [][McpNext]_vars

\* the invocations proceed, the timers fire and the clock advances
SpecMCPFair == SpecMCP /\ WF_vars(CallStep) /\ WF_vars(Tick)

\* C26: two invocations in flight at the same time never use the same id, and
\* no invocation's reply channel is replaced (its sender dropped) by another's
C26_InFlightIdsDistinct ==
    /\ \A c, d \in Calls :
         (c # d /\ InFlight(c) /\ InFlight(d)) => mcp.call[c].id # mcp.call[d].id
    /\ \A c \in Calls : mcp.call[c].rx # "dropped"

Held == { c \in Calls : HoldsPermit(c) }

\* C27 (as stated): at most MAX_CONCURRENT_REQUESTS invocations hold a permit
\* and at most that many requests are unanswered at the sidecar
C27_AtMostThreeOutstandingAtSidecar ==
    /\ Cardinality(Held) <= MAX_CONCURRENT_REQUESTS
    /\ Cardinality(mcp.inbox) <= MAX_CONCURRENT_REQUESTS

\* C27 (amended): at most MAX_CONCURRENT_REQUESTS invocations hold a permit,
\* so at most that many requests of invocations that have not returned are
\* unanswered at the sidecar, and an invocation gets past the semaphore only
\* while fewer than that many hold a permit
C27_AtMostThreeHoldAPermit ==
    /\ [](/\ Cardinality(Held) <= MAX_CONCURRENT_REQUESTS
          /\ mcp.permits = MAX_CONCURRENT_REQUESTS - Cardinality(Held)
          /\ Cardinality({ r \in mcp.inbox : InFlight(r.call) })
                <= MAX_CONCURRENT_REQUESTS)
    /\ [][\A c \in Calls :
            (mcp.call[c].pc = "acquire" /\ mcp'.call[c].pc # "acquire")
               => Cardinality(Held) < MAX_CONCURRENT_REQUESTS]_vars

\* three invocations wait for their answers, a fourth waits for a permit
C27_Witness ==
    /\ Cardinality(Held) = MAX_CONCURRENT_REQUESTS
    /\ \E c \in Calls : mcp.call[c].pc = "acquire"
    /\ Cardinality(mcp.inbox) = MAX_CONCURRENT_REQUESTS

EntriesOf(m, c) ==
    <<{ e.id : e \in { x \in m.pending : x.call = c } },
      { e.id : e \in { x \in m.active : x.call = c } }>>

\* C28: when an invocation returns, neither map holds an entry of it, and
\* the entries of the other invocations in flight are as they were
C28_ReturnRemovesOwnEntriesOnly ==
    [][\A c \in Calls :
         (mcp.call[c].pc # "done" /\ mcp'.call[c].pc = "done") =>
            /\ EntriesOf(mcp', c) = <<{}, {}>>
            /\ \A d \in Calls \ {c} :
                 mcp'.call[d].pc = "wait" => EntriesOf(mcp', d) = EntriesOf(mcp, d)]_vars

Started(c) == mcp.call[c].pc # "idle"

\* the step is the return of invocation c ...
Returns(c) == mcp.call[c].pc # "done" /\ mcp'.call[c].pc = "done"

\* ... with the sidecar's result or error
WithAnswer(c) == mcp.call[c].pc = "wait" /\ mcp.call[c].rx = "Answer"

\* ... with "MCP 服务器未运行"
WithNotRunning(c) == mcp.call[c].pc = "acquire" /\ mcp.child = None

\* ... with the timeout error, when the timer has run out
WithTimeout(c) ==
    /\ mcp.call[c].pc = "wait"
    /\ \/ mcp.call[c].rx = "empty" /\ mcp.call[c].left = 0
       \/ mcp.call[c].rx = "HealthTimeout"

\* ... with the error of the write
WithWriteError(c) == mcp.call[c].pc = "acquire" /\ mcp.child # None

\* ... with "MCP 响应通道已关闭"
WithChannelClosed(c) == mcp.call[c].pc = "wait" /\ mcp.call[c].rx = "dropped"

EveryCallReturns == \A c \in Calls : Started(c) ~> (mcp.call[c].pc = "done")

\* C29 (as stated): every invocation eventually returns, with the sidecar's
\* answer, with "server not running", or with the timeout error
C29_ReturnsAnswerNotRunningOrTimeout ==
    /\ EveryCallReturns
    /\ [][\A c \in Calls : Returns(c) =>
            WithAnswer(c) \/ WithNotRunning(c) \/ WithTimeout(c)]_vars

\* C29 (amended): every invocation eventually returns, with the sidecar's
\* answer, with "server not running", with the error of a failed write, with
\* "channel closed", or with the timeout error, and its timer never runs
\* longer than the timeout of a tool
C29_EveryCallReturns ==
    /\ EveryCallReturns
    /\ [][\A c \in Calls : Returns(c) =>
            \/ WithAnswer(c) \/ WithNotRunning(c) \/ WithTimeout(c)
            \/ WithWriteError(c) \/ WithChannelClosed(c)]_vars
    /\ [](\A c \in Calls : \E tool_name \in Tools :
            mcp.call[c].left \in 0..TimeoutTicks(tool_name))

\* every invocation has returned although the sidecar answered none
C29_Witness ==
    /\ \A c \in Calls : mcp.call[c].pc = "done"
    /\ Cardinality(mcp.inbox) > 0

\* C30: start_mcp_server spawns nothing while a child is recorded, and after
\* the sidecar has terminated no child is recorded
C30_TerminatedChildIsForgotten ==
    /\ [][mcp.child # None => mcp'.spawned = mcp.spawned]_vars
    /\ (mcp.child = "Dead") ~> (mcp.child = None)

====
